---- MODULE Spec2Model ----
(***************************************************************************)
(* A model of TGAI-Bennet: the conversation store and context assembler    *)
(* (src/utils/chat_history.py), the context-aware completion path          *)
(* (src/core/llm_client.py, src/core/bot.py, src/modules/base_module.py)   *)
(* and the module registry and supervisor (src/core/module_manager.py).    *)
(*                                                                         *)
(* Each subsystem has its own specification over its own group of          *)
(* variables; the variables of the other groups stay at their initial      *)
(* values:                                                                 *)
(*   SpecHist   one chat's messages and the reads of its history           *)
(*   SpecClear  several chats and conversations, and clearing them         *)
(*   SpecTime   the loop that fires a time-triggered module                *)
(*   SpecMod    loading, running and unloading modules                     *)
(*   SpecReload the module directory changes and reload passes run         *)
(*   SpecWatch  the watcher's notifications and the passes they schedule   *)
(*   SpecReply  the handler of a chat message and what the user receives   *)
(*   SpecRate   the rate limit of the provider gateway                      *)
(*   SpecRetry  the retries of the provider gateway                        *)
(*   SpecChat   concurrent requests for a completion on the chats' history *)
(*   SpecConn   add_message, statement by statement, on one connection    *)
(*   SpecLife   one module is loaded, runs and is unloaded, call by call   *)
(*   SpecLock   reload_modules is called while a pass runs                 *)
(*   SpecStop   the calls of reload passes go on while stop() runs         *)
(***************************************************************************)
EXTENDS Integers, Sequences, FiniteSets, TLC

VARIABLES
    \* ---- conversation store (chat_history.py) ----
    msgs,           \* rows of table messages (a set of records)
    convs,          \* rows of table conversations: convs[id] = [chat, last]
    msgSeq,         \* AUTOINCREMENT counter of table messages
    now,            \* CURRENT_TIMESTAMP, in seconds
    tiesAscending,  \* the order SQLite gives rows of equal ORDER BY key
    lastOp          \* the last store operation: its arguments and what it returned

histVars == <<msgs, convs, msgSeq, now, tiesAscending, lastOp>>

VARIABLES
    \* ---- the loop of a time-triggered module (module_manager.py) ----
    clock,          \* datetime.now(), in seconds
    loopPc,         \* where the loop task stands
    nextRun,        \* next_run
    retryCount,     \* retry_count
    currentTime,    \* current_time
    wakeAt,         \* when the sleep the task is in ends
    alerts,         \* alerts sent to the admin chat
    firing,         \* the firing under way: its attempts and how it ended
    notifyOnError,  \* modules.error_handling.notify_on_error
    exited          \* how the loop's task ended, once it was cancelled

timeVars == <<clock, loopPc, nextRun, retryCount, currentTime, wakeAt,
              alerts, firing, notifyOnError, exited>>

VARIABLES
    \* ---- the module registry (module_manager.py) ----
    up,             \* a ModuleManager exists and was not stopped
    files,          \* the module directory: files[stem] = the qualifying classes
    modules,        \* self.modules: modules[stem] = the instance, or NotLoaded
    states,         \* self.states, as written to the state file
    moduleErrors,   \* self.module_errors: the number of entries of each key
    saved,          \* what save_state() returned when the module last went
    present,        \* the stems whose file is in the module directory
    modified,       \* the loaded stems whose file is newer than the instance
    moduleTasks,    \* self.module_tasks: the stems that have a running task
    reloadScheduled,\* self.reload_scheduled
    delayed,        \* the _delayed_reload tasks that sleep or wait for the lock
    pass,           \* the reload pass that holds self.reload_lock
    unseen          \* a change was notified and no pass has scanned since

modVars == <<up, files, modules, states, moduleErrors, saved, present,
             modified, moduleTasks, reloadScheduled, delayed, pass, unseen>>

VARIABLES
    \* ---- requests for a completion (bot.py, llm_client.py, base_module.py) ----
    log,            \* the stored messages in id order: [chat, role, req]
    task,           \* task[t] = where task t stands in its request
    chatLocks,      \* self._chat_locks: the holder of each chat's lock
    reqSeq          \* the requests made so far

chatVars == <<log, task, chatLocks, reqSeq>>

VARIABLES
    \* ---- the store's connection, statement by statement (chat_history.py) ----
    durable,        \* what the database file holds: the last commit
    caller,         \* caller[c] = where caller c stands in add_message
    failedAdds      \* the ids of the rows whose add_message has raised

connVars == <<durable, caller, failedAdds>>

VARIABLES
    \* ---- the handler of a chat message and what the user gets (bot.py) ----
    reply,          \* where the handler stands with the message it handles
    delivered,      \* what the user received for that message, in order
    handled         \* the messages handled so far

replyVars == <<reply, delivered, handled>>

VARIABLES
    \* ---- the gateway to the completion provider (llm_client.py) ----
    wall,           \* time.time(), in seconds
    requestCount,   \* self.request_count
    lastRequestTime,\* self.last_request_time
    waiter,         \* waiter[g] = where caller g stands in _check_rate_limit
    proceeded,      \* the times at which _check_rate_limit let a request go
    windows,        \* the times at which _check_rate_limit started a window
    provider,       \* self.provider
    attempts,       \* the chat_completion under way: attempts and delays
    completions     \* the chat_completion calls that have ended

rateVars == <<wall, requestCount, lastRequestTime, waiter, proceeded,
              windows>>
retryVars == <<provider, attempts, completions>>
gateVars == <<rateVars, retryVars>>

VARIABLES
    \* ---- one module's life in the registry, call by call (module_manager.py) ----
    trigger,        \* module.trigger.type
    clsKey,         \* module_class.__name__, the key its state is read under
    kept,           \* self.states, for the file stem and for the class name
    entry,          \* the stem is in self.modules
    taskHeld,       \* the stem is in self.module_tasks
    cached,         \* src.modules.<stem> is in sys.modules
    runner,         \* where the module's task stands
    cancelAsked,    \* task.cancel() was called and has not been delivered
    invoked,        \* the run() invocations of the module's task
    opPc,             \* where load_module or unload_module stands
    calls,          \* what the operation under way, or the last one, did
    ended,        \* how the last operation ended
    loads,          \* the number of load_module calls
    lifeErrors,     \* self.module_errors of the stem: what each entry is of
    runRaised       \* the run() of the module's task has raised
lifeVars == <<trigger, clsKey, kept, entry, taskHeld, cached, runner,
              cancelAsked, invoked, opPc, calls, ended, loads, lifeErrors,
              runRaised>>

VARIABLES
    \* ---- the callers of reload_modules and its lock (module_manager.py, bot.py) ----
    reloadLock,     \* self.reload_lock: the caller that holds it, or free
    reloader,       \* reloader[c] = where caller c stands in reload_modules
    passLog,        \* the steps of the passes, in the order they were taken
    passes          \* the number of reload_modules calls
lockVars == <<reloadLock, reloader, passLog, passes>>

VARIABLES
    \* ---- stop() beside the calls of a reload pass (module_manager.py) ----
    regEntries,     \* self.modules: its entries, in the order of the dict
    taskEntries,    \* self.module_tasks: its entries, in the order of the dict
    taskState,      \* taskState[id] = the module and the state of task id
    born,           \* the number of tasks created so far
    passOp,         \* where the call of the reload pass stands
    stopOp          \* where stop() stands
stopVars == <<regEntries, taskEntries, taskState, born, passOp, stopOp>>

nonHistVars == <<timeVars, modVars, chatVars, connVars, replyVars, gateVars,
    lifeVars, lockVars, stopVars>>
nonTimeVars == <<histVars, modVars, chatVars, connVars, replyVars, gateVars,
    lifeVars, lockVars, stopVars>>
nonModVars == <<histVars, timeVars, chatVars, connVars, replyVars, gateVars,
    lifeVars, lockVars, stopVars>>
nonChatVars == <<histVars, timeVars, modVars, connVars, replyVars, gateVars,
    lifeVars, lockVars, stopVars>>
nonConnVars == <<timeVars, modVars, chatVars, replyVars, gateVars,
    lifeVars, lockVars, stopVars>>
nonReplyVars == <<histVars, timeVars, modVars, chatVars, connVars, gateVars,
    lifeVars, lockVars, stopVars>>

nonLifeVars == <<histVars, timeVars, modVars, chatVars, connVars, replyVars,
                 gateVars, lockVars, stopVars>>

nonLockVars == <<histVars, timeVars, modVars, chatVars, connVars, replyVars,
                 gateVars, lifeVars, stopVars>>

nonStopVars == <<histVars, timeVars, modVars, chatVars, connVars, replyVars,
                 gateVars, lifeVars, lockVars>>

nonGateVars == <<histVars, timeVars, modVars, chatVars, connVars, replyVars,
    lifeVars, lockVars, stopVars>>

vars == <<histVars, timeVars, modVars, chatVars, connVars, replyVars, gateVars,
          lifeVars, lockVars, stopVars>>

-----------------------------------------------------------------------------
(* Bounds of the model *)

MaxClock == 1
MaxMsgs == 3
MaxConvs == 3
MaxFailedAdds == 1
MaxTime == 6
MaxState == 1
MaxErrors == 1
MaxDelayed == 1
MaxRequests == 2
MaxHandled == 3
MaxParts == 2
MaxWall == 7
MaxProceeded == 4
MaxCompletions == 2
MaxLoads == 2
MaxInvoked == 2
MaxPasses == 3
MaxSteps == 2
MaxTasks == 4

(* Configuration (chat_history.py, __init__) *)

MaxHistoryLength == 2
MaxTokenLimit == 5
TokenSafetyMargin == 2
TokensPerCharacterDen == 4

(* token_count is a nullable column; the id of a not given conversation *)
Null == -1
NoConv == 0
NoLimit == 0

Chats == {1, 2}
Roles == {"system", "user", "assistant"}
\* contents are modelled by their length in characters
Lens == {4, 8}
\* model ids: none given, one with an exact tokenizer, one without
NoModel == "none"
Models == {"gpt", "llama"}

-----------------------------------------------------------------------------
(* Helpers on sequences and sets *)

Max(a, b) == IF a >= b THEN a ELSE b

Range(s) == {s[i] : i \in 1..Len(s)}

Reverse(s) == [i \in 1..Len(s) |-> s[Len(s) + 1 - i]]

Take(s, n) == SubSeq(s, 1, IF n <= Len(s) THEN n ELSE Len(s))

RECURSIVE SumTok(_)
SumTok(s) == IF s = <<>> THEN 0 ELSE Head(s).tok + SumTok(Tail(s))

-----------------------------------------------------------------------------
(* Tokenizer / estimator *)

\* _estimate_tokens_by_chars: 0 for empty text, else max(1, int(len * 0.25))
EstimateTokensByChars(len) ==
    IF len = 0 THEN 0 ELSE Max(1, len \div TokensPerCharacterDen)

\* len(tokenizer.encode(text)): the exact tokenizer of the model family; it is
\* a library outside the repository, taken here as one token per three
\* characters, rounded up: an estimate of its own, different from the ratio
Encode(len) == (len + 2) \div 3

\* _get_tokenizer: a tokenizer for "gpt" models only
HasTokenizer(model) == model = "gpt"

\* count_tokens
CountTokens(len, model) ==
    IF HasTokenizer(model) THEN Encode(len) ELSE EstimateTokensByChars(len)

-----------------------------------------------------------------------------
(* Queries of the store *)

ConvIds == 1..Len(convs)

ConvsOfChat(chat) == {c \in ConvIds : convs[c].chat = chat}

\* ORDER BY key DESC; SQL leaves the order of rows with equal keys open, and
\* SQLite's order is the one of its query plan: ascending row id (a sort of
\* the rows in index order) or descending row id (a backward index scan)
TieBefore(a, b) == IF tiesAscending THEN a < b ELSE a > b

\* SELECT id FROM conversations WHERE chat_id = ? ORDER BY last_message_time
\* DESC LIMIT 1 (a chat with a conversation)
CurrentIn(cs, chat) ==
    LET ofChat == {c \in 1..Len(cs) : cs[c].chat = chat}
    IN  CHOOSE c \in ofChat :
            \A d \in ofChat \ {c} :
                \/ cs[c].last > cs[d].last
                \/ cs[c].last = cs[d].last /\ TieBefore(c, d)

CurrentConv(chat) == CurrentIn(convs, chat)

RowBefore(a, b) ==
    \/ a.ts > b.ts
    \/ a.ts = b.ts /\ TieBefore(a.id, b.id)

RECURSIVE SortRows(_)
SortRows(S) ==
    IF S = {} THEN <<>>
    ELSE LET f == CHOOSE r \in S : \A o \in S \ {r} : RowBefore(r, o)
         IN  <<f>> \o SortRows(S \ {f})

\* SELECT ... FROM messages WHERE conversation_id = ? [AND role != 'system']
\* ORDER BY timestamp DESC LIMIT ?
FetchRows(rows, conv, includeSystem, limit) ==
    Take(SortRows({m \in rows : /\ m.conv = conv
                                /\ (includeSystem \/ m.role # "system")}),
         limit)

-----------------------------------------------------------------------------
(* get_conversation_history: the walk over the fetched rows *)

\* the token count a row is given in the walk: its stored count, else the
\* count of the caller's model, else the estimate by characters
TokenOf(row, model) ==
    IF row.tok # Null THEN row.tok
    ELSE IF model # NoModel THEN CountTokens(row.len, model)
    ELSE EstimateTokensByChars(row.len)

\* the entry appended to result for a row
ResultRow(row, tok) ==
    [id |-> row.id, role |-> row.role, len |-> row.len, ts |-> row.ts,
     tok |-> tok]

\* (mutant of Scan) the loop with continue in place of break: a row over the
\* budget is skipped and the walk goes on to the older rows
RECURSIVE ScanSkipping(_, _, _, _, _)
ScanSkipping(rows, i, total, maxTokens, model) ==
    IF i > Len(rows) THEN [kept |-> <<>>, visited |-> Len(rows)]
    ELSE LET tok == TokenOf(rows[i], model)
         IN  IF maxTokens > 0 /\ total + tok > maxTokens
             THEN ScanSkipping(rows, i + 1, total, maxTokens, model)
             ELSE LET rest == ScanSkipping(rows, i + 1, total + tok,
                                           maxTokens, model)
                  IN  [kept |-> <<ResultRow(rows[i], tok)>> \o rest.kept,
                       visited |-> rest.visited]

\* the for loop, newest row first: [kept: the rows appended to result, in the
\* order of the walk; visited: how many rows the loop body ran for]
RECURSIVE Scan(_, _, _, _, _)
Scan(rows, i, total, maxTokens, model) ==
    IF i > Len(rows) THEN [kept |-> <<>>, visited |-> Len(rows)]
    ELSE LET tok == TokenOf(rows[i], model)
         IN  IF maxTokens > 0 /\ total + tok > maxTokens
             THEN [kept |-> <<>>, visited |-> i]
             ELSE LET rest == Scan(rows, i + 1, total + tok, maxTokens, model)
                  IN  [kept |-> <<ResultRow(rows[i], tok)>> \o rest.kept,
                       visited |-> rest.visited]

\* UPDATE messages SET token_count = ? WHERE id = ?, for every visited row
\* whose count was null, when a model is given
NeedsBackfill(m, fetched, visited, model) ==
    /\ m.tok = Null
    /\ model # NoModel
    /\ \E i \in 1..visited : fetched[i].id = m.id

\* (mutant of Backfill) the estimate by characters is stored, not the count
\* of the caller's model
BackfillEstimate(rows, fetched, visited, model) ==
    {IF NeedsBackfill(m, fetched, visited, model)
        THEN [m EXCEPT !.tok = EstimateTokensByChars(m.len)]
        ELSE m : m \in rows}

Backfill(rows, fetched, visited, model) ==
    {IF NeedsBackfill(m, fetched, visited, model)
        THEN [m EXCEPT !.tok = CountTokens(m.len, model)]
        ELSE m : m \in rows}

\* max_messages = max_messages or self.max_history_length
EffectiveMaxMessages(maxMessages) ==
    IF maxMessages = NoLimit THEN MaxHistoryLength ELSE maxMessages

\* max_tokens = max_tokens or self.max_token_limit
TokenBudget(maxTokens) ==
    IF maxTokens = NoLimit THEN MaxTokenLimit ELSE maxTokens

\* max_tokens = max(0, max_tokens - self.token_safety_margin)
EffectiveMaxTokens(maxTokens) ==
    Max(0, TokenBudget(maxTokens) - TokenSafetyMargin)

\* get_or_create_conversation: [id, convs: the table afterwards]
GetOrCreateConversation(cs, chat) ==
    IF \E c \in 1..Len(cs) : cs[c].chat = chat
    THEN [id |-> CurrentConv(chat), convs |-> cs]
    ELSE [id |-> Len(cs) + 1,
          convs |-> Append(cs, [chat |-> chat, last |-> now])]

\* get_conversation_history as a whole: what it returns and what it writes
History(chat, maxMessages, includeSystem, conv, maxTokens, model) ==
    LET goc     == IF conv = NoConv THEN GetOrCreateConversation(convs, chat)
                   ELSE [id |-> conv, convs |-> convs]
        fetched == FetchRows(msgs, goc.id, includeSystem,
                             EffectiveMaxMessages(maxMessages))
        scan    == Scan(fetched, 1, 0, EffectiveMaxTokens(maxTokens), model)
        after   == Backfill(msgs, fetched, scan.visited, model)
    IN  [conv    |-> goc.id,
         fetched |-> [i \in 1..Len(fetched) |-> fetched[i].id],
         result  |-> Reverse(scan.kept),
         msgs    |-> after,
         convs   |-> goc.convs,
         writes  |-> Cardinality(after \ msgs) + (Len(goc.convs) - Len(convs))]

-----------------------------------------------------------------------------
(* The store's operations, each as one step *)

NoOp ==
    [op |-> "none", chat |-> 0, conv |-> NoConv, maxMessages |-> NoLimit,
     includeSystem |-> TRUE, maxTokens |-> NoLimit, model |-> NoModel,
     sys |-> 0, sysTok |-> 0, fetched |-> <<>>, result |-> <<>>,
     writes |-> 0, rep |-> FALSE, prevResult |-> <<>>, prevWrites |-> 0,
     convsBefore |-> <<>>]

HistInit ==
    /\ msgs = {}
    /\ convs = <<>>
    /\ msgSeq = 0
    /\ now = 0
    /\ tiesAscending \in BOOLEAN
    /\ lastOp = NoOp

\* a second passes
Tick ==
    /\ now < MaxClock
    /\ now' = now + 1
    /\ UNCHANGED <<msgs, convs, msgSeq, tiesAscending, lastOp, nonHistVars>>

\* start_conversation
StartConversation(chat) ==
    /\ Len(convs) < MaxConvs
    /\ convs' = Append(convs, [chat |-> chat, last |-> now])
    /\ lastOp' = [NoOp EXCEPT !.op = "start"]
    /\ UNCHANGED <<msgs, msgSeq, now, tiesAscending, nonHistVars>>

\* add_message
AddMessage(chat, role, len, conv, model) ==
    LET goc == IF conv = NoConv THEN GetOrCreateConversation(convs, chat)
               ELSE [id |-> conv, convs |-> convs]
        tok == IF model # NoModel THEN CountTokens(len, model) ELSE Null
    IN  /\ msgSeq < MaxMsgs
        /\ Len(goc.convs) <= MaxConvs
        /\ msgSeq' = msgSeq + 1
        /\ msgs' = msgs \cup {[id |-> msgSeq + 1, conv |-> goc.id,
                               chat |-> chat, role |-> role, len |-> len,
                               tok |-> tok, ts |-> now]}
        /\ convs' = [goc.convs EXCEPT ![goc.id].last = now]
        /\ lastOp' = [NoOp EXCEPT !.op = "add"]
        /\ UNCHANGED <<now, tiesAscending, nonHistVars>>

SameRead(a, b) ==
    /\ a.op = b.op /\ a.chat = b.chat /\ a.conv = b.conv
    /\ a.maxMessages = b.maxMessages /\ a.includeSystem = b.includeSystem
    /\ a.maxTokens = b.maxTokens /\ a.model = b.model /\ a.sys = b.sys

\* get_conversation_history
GetConversationHistory(chat, maxMessages, includeSystem, conv, maxTokens, model) ==
    \E h \in {History(chat, maxMessages, includeSystem, conv, maxTokens, model)} :
    LET call == [NoOp EXCEPT !.op = "history", !.chat = chat, !.conv = conv,
                             !.maxMessages = maxMessages,
                             !.includeSystem = includeSystem,
                             !.maxTokens = maxTokens, !.model = model]
        rep  == SameRead(lastOp, call)
    IN  /\ Len(h.convs) <= MaxConvs
        /\ msgs' = h.msgs
        /\ convs' = h.convs
        /\ lastOp' = [call EXCEPT !.fetched = h.fetched, !.result = h.result,
                                  !.writes = h.writes, !.rep = rep,
                                  !.prevResult = IF rep THEN lastOp.result ELSE <<>>,
                                  !.prevWrites = IF rep THEN lastOp.writes ELSE 0]
        /\ UNCHANGED <<msgSeq, now, tiesAscending, nonHistVars>>

\* (mutant of Context) the system message is left out when the history
\* holds a system row
ContextMerged(system, history) ==
    IF \E i \in 1..Len(history) : history[i].role = "system"
    THEN history
    ELSE <<system>> \o history

\* create_chat_context: the system message, then the history
Context(system, history) == <<system>> \o history

\* create_chat_context: the result is the context, [role, len] entries; the
\* history rows it was built from are kept in fetched
CreateChatContext(chat, sys, model, maxTokens, includeSystem) ==
    \E h \in {History(chat, NoLimit, includeSystem, NoConv, maxTokens, model)} :
    LET sysTok == IF model # NoModel THEN CountTokens(sys, model)
                  ELSE EstimateTokensByChars(sys)
    IN  /\ Len(h.convs) <= MaxConvs
        /\ msgs' = h.msgs
        /\ convs' = h.convs
        /\ lastOp' = [NoOp EXCEPT !.op = "context", !.chat = chat,
                                  !.includeSystem = includeSystem,
                                  !.maxTokens = maxTokens, !.model = model,
                                  !.sys = sys, !.sysTok = sysTok,
                                  !.fetched = h.fetched,
                                  !.result =
                                      Context([id |-> 0, role |-> "system",
                                               len |-> sys, ts |-> 0,
                                               tok |-> sysTok], h.result),
                                  !.writes = h.writes]
        /\ UNCHANGED <<msgSeq, now, tiesAscending, nonHistVars>>

\* (mutant of Cleared) without a conversation id only the current
\* conversation of the chat is cleared
ClearedCurrentOnly(chat, conv) ==
    IF conv # NoConv
    THEN {m \in msgs : m.conv = conv /\ m.chat = chat}
    ELSE {m \in msgs : ConvsOfChat(chat) # {} /\ m.conv = CurrentConv(chat)}

\* the rows clear_chat_history deletes
Cleared(chat, conv) ==
    IF conv # NoConv
    THEN {m \in msgs : m.conv = conv /\ m.chat = chat}
    ELSE {m \in msgs : m.conv \in ConvsOfChat(chat)}

\* clear_chat_history
ClearChatHistory(chat, conv) ==
    /\ msgs' = msgs \ Cleared(chat, conv)
    /\ lastOp' = [NoOp EXCEPT !.op = "clear", !.chat = chat, !.conv = conv,
                              !.writes = Cardinality(Cleared(chat, conv)),
                              !.convsBefore = convs]
    /\ UNCHANGED <<convs, msgSeq, now, tiesAscending, nonHistVars>>

-----------------------------------------------------------------------------
(* The loop of a time-triggered module (module_manager.py,                 *)
(* _run_time_based_module)                                                 *)

\* module.trigger.interval, modules.error_handling.max_retries and
\* retry_delay, and the pause between two looks at the clock
Interval == 2
MaxRetries == 2
RetryDelay == 1
PollDelay == 1
RecoverDelay == 2

NoFiring == [first |-> 0, start |-> 0, runs |-> 0, fails |-> 0,
             failedAt |-> 0, alerts |-> 0, outcome |-> "none"]

\* the task is created: next_run = datetime.now() + interval
\* the task has not ended
NotExited == [how |-> "none", at |-> "none", alerts |-> 0, runs |-> 0]

TimeInit ==
    /\ clock = 0
    /\ loopPc = "top"
    /\ nextRun = Interval
    /\ retryCount = 0
    /\ currentTime = 0
    /\ wakeAt = 0
    /\ alerts = 0
    /\ firing = NoFiring
    /\ notifyOnError \in BOOLEAN
    /\ exited = NotExited

\* a second passes
Advance ==
    /\ clock < MaxTime
    /\ clock' = clock + 1
    /\ UNCHANGED <<loopPc, nextRun, retryCount, currentTime, wakeAt, alerts,
                   firing, notifyOnError, exited, nonTimeVars>>

\* a schedule anchored at the firing's first attempt
NextRunFromFirstAttempt(t) == firing.first + Interval

\* next_run = current_time + timedelta(seconds=interval)
NextRunAfter(t) == t + Interval

\* the top of the loop: read the clock, and invoke run() when it is due
LoopTop ==
    /\ loopPc = "top"
    /\ currentTime' = clock
    /\ IF clock >= nextRun
       THEN /\ loopPc' = "running"
            /\ firing' = IF firing.outcome = "retrying"
                         THEN [firing EXCEPT !.start = clock,
                                             !.runs = @ + 1,
                                             !.outcome = "running"]
                         ELSE [NoFiring EXCEPT !.first = clock,
                                               !.start = clock,
                                               !.runs = 1,
                                               !.outcome = "running"]
            /\ UNCHANGED wakeAt
       ELSE /\ loopPc' = "sleeping"
            /\ wakeAt' = clock + PollDelay
            /\ UNCHANGED firing
    /\ UNCHANGED <<clock, nextRun, retryCount, alerts, notifyOnError, exited,
                   nonTimeVars>>

\* run() returns
RunSucceeds ==
    /\ loopPc = "running"
    /\ retryCount' = 0
    /\ nextRun' = NextRunAfter(currentTime)
    /\ firing' = [firing EXCEPT !.outcome = "ok"]
    /\ loopPc' = "sleeping"
    /\ wakeAt' = clock + PollDelay
    /\ UNCHANGED <<clock, currentTime, alerts, notifyOnError, exited, nonTimeVars>>

\* (mutant of MayRetry) one retry more
MayRetryOnceMore(count) == count <= MaxRetries

\* if retry_count < self.max_retries
MayRetry(count) == count < MaxRetries

\* (mutant of NextRunAfterGivingUp) giving up leaves next_run as it was
NextRunKept(t) == nextRun

\* giving up falls through to next_run = current_time + interval
NextRunAfterGivingUp(t) == NextRunAfter(t)

\* run() raises
RunFails ==
    /\ loopPc = "running"
    /\ IF MayRetry(retryCount)
       THEN /\ retryCount' = retryCount + 1
            /\ firing' = [firing EXCEPT !.fails = @ + 1,
                                        !.failedAt = clock,
                                        !.outcome = "retrying"]
            /\ loopPc' = "retrySleep"
            /\ wakeAt' = clock + RetryDelay
            /\ UNCHANGED nextRun
       ELSE IF notifyOnError
       THEN /\ firing' = [firing EXCEPT !.fails = @ + 1,
                                        !.failedAt = clock]
            /\ loopPc' = "alerting"
            /\ UNCHANGED <<retryCount, nextRun, wakeAt>>
       ELSE /\ retryCount' = 0
            /\ nextRun' = NextRunAfterGivingUp(currentTime)
            /\ firing' = [firing EXCEPT !.fails = @ + 1,
                                        !.failedAt = clock,
                                        !.outcome = "gaveUp"]
            /\ loopPc' = "sleeping"
            /\ wakeAt' = clock + PollDelay
    /\ UNCHANGED <<clock, currentTime, alerts, notifyOnError, exited, nonTimeVars>>

\* bot.send_message returns: the alert is out (or its failure was logged)
AlertSent ==
    /\ loopPc = "alerting"
    /\ alerts' = alerts + 1
    /\ retryCount' = 0
    /\ nextRun' = NextRunAfterGivingUp(currentTime)
    /\ firing' = [firing EXCEPT !.alerts = @ + 1, !.outcome = "gaveUp"]
    /\ loopPc' = "sleeping"
    /\ wakeAt' = clock + PollDelay
    /\ UNCHANGED <<clock, currentTime, notifyOnError, exited, nonTimeVars>>

\* asyncio.sleep returns, no sooner than asked
WakeUp ==
    /\ loopPc \in {"sleeping", "retrySleep", "recovering"}
    /\ clock >= wakeAt
    /\ loopPc' = "top"
    /\ UNCHANGED <<clock, nextRun, retryCount, currentTime, wakeAt, alerts,
                   firing, notifyOnError, exited, nonTimeVars>>

\* an exception that is not run()'s is raised in the body of the loop (a
\* MemoryError, say): the last except branch logs it and sleeps
UnexpectedError ==
    /\ loopPc = "top"
    /\ loopPc' = "recovering"
    /\ wakeAt' = clock + RecoverDelay
    /\ UNCHANGED <<clock, nextRun, retryCount, currentTime, alerts, firing,
                   notifyOnError, exited, nonTimeVars>>

\* how the task ends when CancelledError is raised at the await it is
\* suspended at: the awaits of the try body are under 'except
\* asyncio.CancelledError: break', the sleep of the last except branch is not
ExitOnCancel(pc) == IF pc = "recovering" THEN "raised" ELSE "break"

\* the task is cancelled where it waits
CancelLoop ==
    /\ loopPc \in {"running", "retrySleep", "alerting", "sleeping",
                   "recovering"}
    /\ loopPc' = "cancelled"
    /\ exited' = [how |-> ExitOnCancel(loopPc), at |-> loopPc,
                  alerts |-> alerts, runs |-> firing.runs]
    /\ UNCHANGED <<clock, nextRun, retryCount, currentTime, wakeAt, alerts,
                   firing, notifyOnError, nonTimeVars>>

-----------------------------------------------------------------------------
(* The module registry (module_manager.py)                                 *)

\* the files of the module directory, by stem
Stems == {"alpha", "beta"}

\* the class names a module file may define, as inspect.getmembers sorts them
ClassOrder == <<"Alpha", "Beta", "alpha">>
ClassNames == Range(ClassOrder)

\* what a module file may hold: the classes that derive from BaseModule and
\* are defined in the file itself
FileContents == {{}, {"Alpha"}, {"alpha"}, {"Alpha", "Beta"}}

\* a module's state: the empty mapping, mappings of JSON values, a mapping
\* that holds a value JSON has no form for, and that mapping once
\* json.dump(default=str) has written it
EmptyState == 0
Opaque == 10
Stringified == 11
ModuleStates == (0..MaxState) \cup {Opaque, Stringified}

NoState == -1
NotCalled == -2

NoClass == "None"
NotLoaded == [cls |-> NoClass, state |-> EmptyState, passed |-> NotCalled,
              found |-> 0]

Loaded == {stem \in Stems : modules[stem] # NotLoaded}

StateKeys == Stems \cup ClassNames

\* json.dump(self.states, default=str) followed by json.load
JsonRoundTrip(state) == IF state = Opaque THEN Stringified ELSE state

\* _get_module_state: self.states.get(module_name, {})
GetModuleState(key) ==
    IF states[key] = NoState THEN EmptyState ELSE states[key]

\* _set_module_state
SetModuleState(st, key, state) == [st EXCEPT ![key] = state]

\* _load_module_class: the first class of the file that qualifies
LoadModuleClass(classes) ==
    IF classes = {} THEN NoClass
    ELSE ClassOrder[CHOOSE i \in 1..Len(ClassOrder) :
            /\ ClassOrder[i] \in classes
            /\ \A j \in 1..(i - 1) : ClassOrder[j] \notin classes]

\* the key unload_module and stop store a module's state under
SaveKey(stem) == stem

\* the key _initialize_module reads a module's state from
LoadKey(stem, cls) == cls

\* if state: self._set_module_state(module_name, state)
StoreOnUnload(st, stem) ==
    IF modules[stem].state # EmptyState
    THEN SetModuleState(st, SaveKey(stem), modules[stem].state)
    ELSE st

\* no reload pass holds the lock
NoPass == [pc |-> "idle", toUnload |-> {}, todo |-> {}, candidates |-> {},
           attempted |-> {}, failed |-> {}, errorsBefore |-> <<>>,
           unchecked |-> {}, loadedBefore |-> {}, staleBefore |-> {}]

\* ModuleManager.__init__, with the state file the last process left
ModInit ==
    /\ up = TRUE
    /\ files \in [Stems -> FileContents]
    /\ modules = [stem \in Stems |-> NotLoaded]
    /\ states = [key \in StateKeys |-> NoState]
    /\ moduleErrors = [stem \in Stems |-> 0]
    /\ saved = [stem \in Stems |-> NoState]
    /\ present = Stems
    /\ modified = {}
    /\ moduleTasks = {}
    /\ reloadScheduled = FALSE
    /\ delayed = 0
    /\ pass = NoPass
    /\ unseen = FALSE

\* a module file is rewritten
EditFile(stem, classes) ==
    /\ stem \in present
    /\ files[stem] # classes
    /\ files' = [files EXCEPT ![stem] = classes]
    /\ modified' = IF stem \in Loaded THEN modified \cup {stem} ELSE modified
    /\ UNCHANGED <<up, modules, states, moduleErrors, saved, present,
                   moduleTasks, reloadScheduled, delayed, pass, unseen,
                   nonModVars>>

\* the steps of load_module at which an exception may be raised: the file
\* is executed and its class looked up, the class is constructed,
\* validate_config(), load_state(), initialize(), start_module()
LoadSteps == {"class", "construct", "validate", "load_state", "initialize",
              "start"}
NoFailure == "none"

\* the step at which the load of a file fails: the one the module fails at,
\* or the class lookup when the file is gone or holds no class
FailsAt(stem, failAt) ==
    IF stem \notin present \/ LoadModuleClass(files[stem]) = NoClass
    THEN "class"
    ELSE failAt

\* _initialize_module: the instance that is registered, with the state the
\* mapping st holds for it
NewInstance(st, stem) ==
    LET cls == LoadModuleClass(files[stem])
        state == IF st[LoadKey(stem, cls)] = NoState THEN EmptyState
                 ELSE st[LoadKey(stem, cls)]
    IN  [cls |-> cls,
         state |-> state,
         passed |-> IF state # EmptyState THEN state ELSE NotCalled,
         found |-> Cardinality(files[stem])]

\* load_module on the registry mods, the error log errs, the tasks tasks
\* and the state mapping st: what the first three become
LoadResult(mods, errs, tasks, st, stem, failAt) ==
    IF FailsAt(stem, failAt) = NoFailure
    THEN [modules |-> [mods EXCEPT ![stem] = NewInstance(st, stem)],
          moduleErrors |-> errs,
          moduleTasks |-> tasks \cup {stem}]
    ELSE IF FailsAt(stem, failAt) = "start"
    THEN [modules |-> [mods EXCEPT ![stem] = NewInstance(st, stem)],
          moduleErrors |-> [errs EXCEPT ![stem] = @ + 1],
          moduleTasks |-> tasks]
    ELSE [modules |-> mods,
          moduleErrors |-> [errs EXCEPT ![stem] = @ + 1],
          moduleTasks |-> tasks]

\* load_module; failAt: the step at which the module raises, if any
LoadModule(stem, failAt) ==
    /\ up
    /\ stem \notin Loaded
    /\ \E r \in {LoadResult(modules, moduleErrors, moduleTasks, states, stem,
                            failAt)} :
          /\ \A x \in Stems : r.moduleErrors[x] <= MaxErrors
          /\ modules' = r.modules
          /\ moduleErrors' = r.moduleErrors
          /\ moduleTasks' = r.moduleTasks
    /\ modified' = modified \ {stem}
    /\ UNCHANGED <<up, files, states, saved, present, reloadScheduled,
                   delayed, pass, unseen, nonModVars>>

\* run() of a loaded module changes the module's state
ModuleRuns(stem, state) ==
    /\ up
    /\ stem \in Loaded
    /\ state # modules[stem].state
    /\ state \in {modules[stem].state + 1, Opaque} \cap ((1..MaxState) \cup {Opaque})
    /\ modules' = [modules EXCEPT ![stem].state = state]
    /\ UNCHANGED <<up, files, states, moduleErrors, saved, present, modified,
                   moduleTasks, reloadScheduled, delayed, pass, unseen,
                   nonModVars>>

\* unload_module
UnloadModule(stem) ==
    /\ up
    /\ stem \in Loaded
    /\ states' = StoreOnUnload(states, stem)
    /\ saved' = [saved EXCEPT ![stem] = modules[stem].state]
    /\ modules' = [modules EXCEPT ![stem] = NotLoaded]
    /\ moduleTasks' = moduleTasks \ {stem}
    /\ modified' = modified \ {stem}
    /\ UNCHANGED <<up, files, moduleErrors, present, reloadScheduled, delayed,
                   pass, unseen, nonModVars>>

RECURSIVE StoreAll(_, _)
StoreAll(st, stems) ==
    IF stems = {} THEN st
    ELSE LET stem == CHOOSE x \in stems : TRUE
         IN  StoreAll(StoreOnUnload(st, stem), stems \ {stem})

\* stop
Stop ==
    /\ up
    /\ up' = FALSE
    /\ states' = StoreAll(states, Loaded)
    /\ saved' = [stem \in Stems |->
                    IF stem \in Loaded THEN modules[stem].state
                    ELSE saved[stem]]
    /\ modules' = [stem \in Stems |-> NotLoaded]
    /\ moduleTasks' = {}
    /\ modified' = {}
    /\ UNCHANGED <<files, moduleErrors, present, reloadScheduled, delayed,
                   pass, unseen, nonModVars>>

\* the next process: ModuleManager.__init__ and _load_states
Restart ==
    /\ ~up
    /\ up' = TRUE
    /\ states' = [key \in StateKeys |-> JsonRoundTrip(states[key])]
    /\ moduleErrors' = [stem \in Stems |-> 0]
    /\ reloadScheduled' = FALSE
    /\ UNCHANGED <<files, modules, saved, present, modified, moduleTasks,
                   delayed, pass, unseen, nonModVars>>

-----------------------------------------------------------------------------
(* The module directory, its watcher and the reload pass                   *)
(* (module_manager.py, ModuleFileHandler, schedule_reload, reload_modules) *)

\* a module file appears
CreateFile(stem, classes) ==
    /\ stem \notin present
    /\ present' = present \cup {stem}
    /\ files' = [files EXCEPT ![stem] = classes]
    /\ modified' = IF stem \in Loaded THEN modified \cup {stem} ELSE modified
    /\ UNCHANGED <<up, modules, states, moduleErrors, saved, moduleTasks,
                   reloadScheduled, delayed, pass, unseen, nonModVars>>

\* a module file is removed
DeleteFile(stem) ==
    /\ stem \in present
    /\ present' = present \ {stem}
    /\ UNCHANGED <<up, files, modules, states, moduleErrors, saved, modified,
                   moduleTasks, reloadScheduled, delayed, pass, unseen,
                   nonModVars>>

\* schedule_reload, called by the watcher for a created, modified or deleted
\* file; onLoopThread: the call is made on the thread of the event loop, so
\* that asyncio.get_running_loop() finds the loop
ScheduleReload(onLoopThread) ==
    /\ up
    /\ unseen' = TRUE
    /\ IF reloadScheduled
       THEN UNCHANGED <<reloadScheduled, delayed>>
       ELSE /\ reloadScheduled' = TRUE
            /\ IF onLoopThread
               THEN /\ delayed < MaxDelayed
                    /\ delayed' = delayed + 1
               ELSE UNCHANGED delayed
    /\ UNCHANGED <<up, files, modules, states, moduleErrors, saved, present,
                   modified, moduleTasks, pass, nonModVars>>

\* reload_modules takes the lock and scans the directory
BeginPass ==
    /\ up
    /\ pass.pc \in {"idle", "done"}
    /\ pass' = [pc |-> "running",
                toUnload |-> Loaded \ present,
                todo |-> present,
                candidates |-> present,
                attempted |-> {},
                failed |-> {},
                errorsBefore |-> moduleErrors,
                unchecked |-> {},
                loadedBefore |-> Loaded,
                staleBefore |-> modified]
    /\ unseen' = FALSE

\* _delayed_reload: the two seconds are over
DelayedReload ==
    /\ delayed > 0
    /\ delayed' = delayed - 1
    /\ BeginPass
    /\ UNCHANGED <<up, files, modules, states, moduleErrors, saved, present,
                   modified, moduleTasks, reloadScheduled, nonModVars>>

\* start() and the reload command call reload_modules
ReloadCommand ==
    /\ BeginPass
    /\ UNCHANGED <<up, files, modules, states, moduleErrors, saved, present,
                   modified, moduleTasks, reloadScheduled, delayed,
                   nonModVars>>

\* reload_modules: a module whose file was not found by the scan is unloaded
PassUnloads(stem) ==
    /\ pass.pc = "running"
    /\ stem \in pass.toUnload
    /\ pass' = [pass EXCEPT !.toUnload = @ \ {stem}]
    /\ states' = StoreOnUnload(states, stem)
    /\ saved' = [saved EXCEPT ![stem] = modules[stem].state]
    /\ modules' = [modules EXCEPT ![stem] = NotLoaded]
    /\ moduleTasks' = moduleTasks \ {stem}
    /\ modified' = modified \ {stem}
    /\ UNCHANGED <<up, files, moduleErrors, present, reloadScheduled, delayed,
                   unseen, nonModVars>>

\* the candidates a pass goes on to after the one whose load failed
TodoAfterAbort(todo, stem, failed) == IF failed THEN {} ELSE todo \ {stem}

\* the candidates a pass goes on to after one of them
TodoAfter(todo, stem, failed) == todo \ {stem}

\* (mutant of Unmodified) no file is taken to be newer
UnmodifiedAlways(stem) == TRUE

\* mtime <= module_instance._load_time
Unmodified(stem) == stem \notin modified

\* reload_modules: a candidate that is loaded and not newer than its
\* instance, or whose file cannot be examined any more, is passed over
PassSkips(stem) ==
    /\ pass.pc = "running"
    /\ pass.toUnload = {}
    /\ stem \in pass.todo
    /\ stem \in Loaded
    /\ stem \notin present \/ Unmodified(stem)
    /\ pass' = [pass EXCEPT
                  !.todo = TodoAfter(@, stem, FALSE),
                  !.unchecked = IF stem \in present THEN @ ELSE @ \cup {stem}]
    /\ UNCHANGED <<up, files, modules, states, moduleErrors, saved, present,
                   modified, moduleTasks, reloadScheduled, delayed, unseen,
                   nonModVars>>

\* (mutant of NeedsReload) every loaded candidate is unloaded and loaded
NeedsReloadAlways(stem) == TRUE

\* the file can be examined and its mtime is above the instance's _load_time
NeedsReload(stem) == stem \in present /\ stem \in modified

\* reload_modules: a candidate that is not loaded is loaded, one that is
\* newer than its instance is unloaded and loaded
PassLoads(stem, failAt) ==
    LET reload == stem \in Loaded
        st == IF reload THEN StoreOnUnload(states, stem) ELSE states
        mods == [modules EXCEPT ![stem] = NotLoaded]
        failed == FailsAt(stem, failAt) # NoFailure
    IN  /\ pass.pc = "running"
        /\ pass.toUnload = {}
        /\ stem \in pass.todo
        /\ reload => NeedsReload(stem)
        /\ \E r \in {LoadResult(mods, moduleErrors, moduleTasks \ {stem}, st,
                                stem, failAt)} :
              /\ \A x \in Stems : r.moduleErrors[x] <= MaxErrors
              /\ modules' = r.modules
              /\ moduleErrors' = r.moduleErrors
              /\ moduleTasks' = r.moduleTasks
        /\ states' = st
        /\ saved' = IF reload THEN [saved EXCEPT ![stem] = modules[stem].state]
                    ELSE saved
        /\ modified' = modified \ {stem}
        /\ pass' = [pass EXCEPT
                      !.todo = TodoAfter(@, stem, failed),
                      !.attempted = @ \cup {stem},
                      !.failed = IF failed THEN @ \cup {stem} ELSE @]
        /\ UNCHANGED <<up, files, present, reloadScheduled, delayed, unseen,
                       nonModVars>>

\* reload_modules: the pass is over and the lock is released
EndPass ==
    /\ pass.pc = "running"
    /\ pass.toUnload = {}
    /\ pass.todo = {}
    /\ pass' = [pass EXCEPT !.pc = "done"]
    /\ reloadScheduled' = FALSE
    /\ UNCHANGED <<up, files, modules, states, moduleErrors, saved, present,
                   modified, moduleTasks, delayed, unseen, nonModVars>>

-----------------------------------------------------------------------------
(* Requests for a completion with history (bot.py, _handle_message and     *)
(* _cmd_clear_history; llm_client.py, get_context_aware_completion;        *)
(* base_module.py, generate_llm_response)                                  *)

\* the tasks that ask for completions: the handlers of two chat messages
\* and the run() of a module
Handlers == {"h1", "h2"}
ModuleTasks == {"m1"}
Tasks == Handlers \cup ModuleTasks

NoLock == "none"
Free == "free"

IdleTask == [pc |-> "idle", chat |-> 0, req |-> 0]

ChatInit ==
    /\ log = <<>>
    /\ task = [t \in Tasks |-> IdleTask]
    /\ chatLocks = [chat \in Chats |-> NoLock]
    /\ reqSeq = 0

Row(t, role) == [chat |-> task[t].chat, role |-> role, req |-> task[t].req]

\* where a task goes when its request is over
Finished(t) ==
    IF t \in Handlers THEN [task[t] EXCEPT !.pc = "reply"] ELSE IdleTask

\* (mutant of LockAvailable) a lock is made for every message
LockMadeAnew(lock) == TRUE

\* the chat's lock is made now, 'if lock_key not in self._chat_locks', or is
\* there and not held
LockAvailable(lock) == lock \in {NoLock, Free}

\* _handle_message: a chat message arrives; the chat's lock is made on first
\* use and taken if it is free
HandlerStarts(t, chat) ==
    /\ t \in Handlers
    /\ task[t].pc = "idle"
    /\ reqSeq < MaxRequests
    /\ reqSeq' = reqSeq + 1
    /\ IF LockAvailable(chatLocks[chat])
       THEN /\ chatLocks' = [chatLocks EXCEPT ![chat] = t]
            /\ task' = [task EXCEPT ![t] =
                          [pc |-> "persistUser", chat |-> chat,
                           req |-> reqSeq + 1]]
       ELSE /\ task' = [task EXCEPT ![t] =
                          [pc |-> "waitLock", chat |-> chat,
                           req |-> reqSeq + 1]]
            /\ UNCHANGED chatLocks
    /\ UNCHANGED <<log, nonChatVars>>

\* async with self._chat_locks[lock_key]: the lock was released
AcquireLock(t) ==
    /\ task[t].pc = "waitLock"
    /\ chatLocks[task[t].chat] = Free
    /\ chatLocks' = [chatLocks EXCEPT ![task[t].chat] = t]
    /\ task' = [task EXCEPT ![t].pc = "persistUser"]
    /\ UNCHANGED <<log, reqSeq, nonChatVars>>

\* generate_llm_response(chat_id=chat, use_history=useHistory) of a module
ModuleStarts(t, chat, useHistory) ==
    /\ t \in ModuleTasks
    /\ task[t].pc = "idle"
    /\ reqSeq < MaxRequests
    /\ reqSeq' = reqSeq + 1
    /\ task' = [task EXCEPT ![t] =
                  [pc |-> IF useHistory THEN "persistUser" ELSE "plain",
                   chat |-> chat, req |-> reqSeq + 1]]
    /\ UNCHANGED <<log, chatLocks, nonChatVars>>

\* get_context_aware_completion: add_message(role="user")
PersistUser(t) ==
    /\ task[t].pc = "persistUser"
    /\ log' = Append(log, Row(t, "user"))
    /\ task' = [task EXCEPT ![t].pc = "context"]
    /\ UNCHANGED <<chatLocks, reqSeq, nonChatVars>>

\* get_context_aware_completion: get_system_message, create_chat_context
BuildContext(t) ==
    /\ task[t].pc = "context"
    /\ task' = [task EXCEPT ![t].pc = "provider"]
    /\ UNCHANGED <<log, chatLocks, reqSeq, nonChatVars>>

\* get_context_aware_completion: chat_completion returns or raises
ProviderAnswers(t, ok) ==
    /\ task[t].pc = "provider"
    /\ task' = [task EXCEPT ![t].pc =
                  IF ok THEN "persistAssistant" ELSE "fallback"]
    /\ UNCHANGED <<log, chatLocks, reqSeq, nonChatVars>>

\* get_context_aware_completion: add_message(role="assistant")
PersistAssistant(t) ==
    /\ task[t].pc = "persistAssistant"
    /\ log' = Append(log, Row(t, "assistant"))
    /\ task' = [task EXCEPT ![t] = Finished(t)]
    /\ UNCHANGED <<chatLocks, reqSeq, nonChatVars>>

\* get_context_aware_completion, except: the completion without context
\* returns or raises
FallbackAnswers(t, ok) ==
    /\ task[t].pc = "fallback"
    /\ task' = [task EXCEPT ![t] =
                  IF ok THEN [task[t] EXCEPT !.pc = "fallbackUser"]
                  ELSE Finished(t)]
    /\ UNCHANGED <<log, chatLocks, reqSeq, nonChatVars>>

\* get_context_aware_completion, except: add_message(role="user")
FallbackPersistUser(t) ==
    /\ task[t].pc = "fallbackUser"
    /\ log' = Append(log, Row(t, "user"))
    /\ task' = [task EXCEPT ![t].pc = "fallbackAssistant"]
    /\ UNCHANGED <<chatLocks, reqSeq, nonChatVars>>

\* get_context_aware_completion, except: add_message(role="assistant")
FallbackPersistAssistant(t) ==
    /\ task[t].pc = "fallbackAssistant"
    /\ log' = Append(log, Row(t, "assistant"))
    /\ task' = [task EXCEPT ![t] = Finished(t)]
    /\ UNCHANGED <<chatLocks, reqSeq, nonChatVars>>

\* generate_llm_response without history: chat_completion returns or raises
PlainAnswers(t, ok) ==
    /\ task[t].pc = "plain"
    /\ task' = [task EXCEPT ![t] =
                  IF ok THEN [task[t] EXCEPT !.pc = "plainUser"]
                  ELSE IdleTask]
    /\ UNCHANGED <<log, chatLocks, reqSeq, nonChatVars>>

\* generate_llm_response without history: add_message(role="user")
PlainPersistUser(t) ==
    /\ task[t].pc = "plainUser"
    /\ log' = Append(log, Row(t, "user"))
    /\ task' = [task EXCEPT ![t].pc = "plainAssistant"]
    /\ UNCHANGED <<chatLocks, reqSeq, nonChatVars>>

\* generate_llm_response without history: add_message(role="assistant")
PlainPersistAssistant(t) ==
    /\ task[t].pc = "plainAssistant"
    /\ log' = Append(log, Row(t, "assistant"))
    /\ task' = [task EXCEPT ![t] = IdleTask]
    /\ UNCHANGED <<chatLocks, reqSeq, nonChatVars>>

\* _handle_message: the reply (or the error notice) is sent and the lock
\* is released
HandlerReplies(t) ==
    /\ task[t].pc = "reply"
    /\ chatLocks' = [chatLocks EXCEPT ![task[t].chat] = Free]
    /\ task' = [task EXCEPT ![t] = IdleTask]
    /\ UNCHANGED <<log, reqSeq, nonChatVars>>

\* the rows of a log that are not of the chat
RECURSIVE WithoutChat(_, _)
WithoutChat(rows, chat) ==
    IF rows = <<>> THEN <<>>
    ELSE IF Head(rows).chat = chat THEN WithoutChat(Tail(rows), chat)
    ELSE <<Head(rows)>> \o WithoutChat(Tail(rows), chat)

\* _cmd_clear_history: clear_chat_history(chat_id)
ClearCommand(chat) ==
    /\ \E i \in 1..Len(log) : log[i].chat = chat
    /\ log' = WithoutChat(log, chat)
    /\ UNCHANGED <<task, chatLocks, reqSeq, nonChatVars>>

-----------------------------------------------------------------------------
(* add_message statement by statement (chat_history.py).  The callers      *)
(* share the manager's one connection: msgs and convs are what the         *)
(* connection sees, its open transaction included, and durable is what     *)
(* the last commit wrote, with the chat of the caller that committed.      *)

Callers == {"c1", "c2"}

IdleCaller == [pc |-> "idle", chat |-> 0, conv |-> NoConv, id |-> 0]

ConnInit ==
    /\ durable = [msgs |-> {}, convs |-> <<>>, chat |-> 0]
    /\ caller = [c \in Callers |-> IdleCaller]
    /\ failedAdds = {}

\* add_message(chat_id, role="user", content) is called
BeginAdd(c, chat) ==
    /\ caller[c].pc = "idle"
    /\ msgSeq + Cardinality({d \in Callers : caller[d].pc \in
                               {"select", "create", "created", "insert"}})
         < MaxMsgs
    /\ caller' = [caller EXCEPT ![c] = [IdleCaller EXCEPT !.pc = "select",
                                                          !.chat = chat]]
    /\ UNCHANGED <<durable, histVars, failedAdds, nonConnVars>>

\* get_or_create_conversation: SELECT id FROM conversations ... LIMIT 1
SelectConversation(c) ==
    /\ caller[c].pc = "select"
    /\ caller' = [caller EXCEPT ![c] =
                    IF ConvsOfChat(caller[c].chat) # {}
                    THEN [caller[c] EXCEPT
                            !.pc = "insert",
                            !.conv = CurrentConv(caller[c].chat)]
                    ELSE [caller[c] EXCEPT !.pc = "create"]]
    /\ UNCHANGED <<durable, histVars, failedAdds, nonConnVars>>

\* start_conversation: INSERT INTO conversations
InsertConversation(c) ==
    /\ caller[c].pc = "create"
    /\ Len(convs) < MaxConvs
    /\ convs' = Append(convs, [chat |-> caller[c].chat, last |-> now])
    /\ caller' = [caller EXCEPT ![c].pc = "created",
                                ![c].conv = Len(convs) + 1]
    /\ UNCHANGED <<durable, msgs, msgSeq, now, tiesAscending, lastOp,
                   failedAdds, nonConnVars>>

\* start_conversation: conn.commit()
CommitConversation(c) ==
    /\ caller[c].pc = "created"
    /\ durable' = [msgs |-> msgs, convs |-> convs, chat |-> caller[c].chat]
    /\ caller' = [caller EXCEPT ![c].pc = "insert"]
    /\ UNCHANGED <<histVars, failedAdds, nonConnVars>>

\* add_message: INSERT INTO messages
InsertMessage(c) ==
    /\ caller[c].pc = "insert"
    /\ msgSeq' = msgSeq + 1
    /\ msgs' = msgs \cup {[id |-> msgSeq + 1, conv |-> caller[c].conv,
                           chat |-> caller[c].chat, role |-> "user",
                           len |-> 4, tok |-> Null, ts |-> now]}
    /\ caller' = [caller EXCEPT ![c].pc = "update", ![c].id = msgSeq + 1]
    /\ UNCHANGED <<durable, convs, now, tiesAscending, lastOp, failedAdds,
                   nonConnVars>>

\* add_message: UPDATE conversations SET last_message_time = CURRENT_TIMESTAMP
UpdateConversation(c) ==
    /\ caller[c].pc = "update"
    /\ convs' = [convs EXCEPT ![caller[c].conv].last = now]
    /\ caller' = [caller EXCEPT ![c].pc = "commit"]
    /\ UNCHANGED <<durable, msgs, msgSeq, now, tiesAscending, lastOp,
                   failedAdds, nonConnVars>>

\* add_message: conn.commit()
CommitMessage(c) ==
    /\ caller[c].pc = "commit"
    /\ durable' = [msgs |-> msgs, convs |-> convs, chat |-> caller[c].chat]
    /\ caller' = [caller EXCEPT ![c] = IdleCaller]
    /\ UNCHANGED <<histVars, failedAdds, nonConnVars>>


\* add_message: the UPDATE or conn.commit() raises after the INSERT has run;
\* the except branch logs and raises DatabaseError, and the connection is
\* left as it is
AddMessageRaises(c) ==
    /\ caller[c].pc \in {"update", "commit"}
    /\ Cardinality(failedAdds) < MaxFailedAdds
    /\ failedAdds' = failedAdds \cup {caller[c].id}
    /\ caller' = [caller EXCEPT ![c] = IdleCaller]
    /\ UNCHANGED <<durable, histVars, nonConnVars>>

-----------------------------------------------------------------------------
(* The handler of a chat message, and what reaches the user (bot.py,       *)
(* _handle_message)                                                        *)

\* what the user can receive for a message
Kinds == {"normal", "fallback", "error"}

NoReply == [pc |-> "idle", kind |-> "none", parts |-> 0]

ReplyInit ==
    /\ reply = NoReply
    /\ delivered = <<>>
    /\ handled = 0

\* a message of the admin arrives and the handler takes the chat's lock
MessageArrives ==
    /\ reply.pc \in {"idle", "done", "raised"}
    /\ handled < MaxHandled
    /\ handled' = handled + 1
    /\ delivered' = <<>>
    /\ reply' = [NoReply EXCEPT !.pc = "typing"]
    /\ UNCHANGED nonReplyVars

\* send_action(TYPING); sent: the call to Telegram does not raise
TypingSent(sent) ==
    /\ reply.pc = "typing"
    /\ reply' = [reply EXCEPT !.pc = IF sent THEN "completion" ELSE "fallback"]
    /\ UNCHANGED <<delivered, handled, nonReplyVars>>

\* get_context_aware_completion returns the answer of its context path
\* ("normal"), the answer of its own plain completion ("fallback"), or
\* raises ("error"); parts: the parts the answer is split into
ContextAwareCompletion(outcome, parts) ==
    /\ reply.pc = "completion"
    /\ reply' = IF outcome = "error"
                THEN [reply EXCEPT !.pc = "fallback"]
                ELSE [pc |-> "send", kind |-> outcome, parts |-> parts]
    /\ UNCHANGED <<delivered, handled, nonReplyVars>>

\* reply_text with the next part of the answer
SendPart(sent) ==
    /\ reply.pc = "send"
    /\ IF sent
       THEN /\ delivered' = Append(delivered, reply.kind)
            /\ reply' = IF reply.parts = 1 THEN [reply EXCEPT !.pc = "done"]
                        ELSE [reply EXCEPT !.parts = @ - 1]
       ELSE /\ reply' = [reply EXCEPT !.pc = "fallback"]
            /\ UNCHANGED delivered
    /\ UNCHANGED <<handled, nonReplyVars>>

\* the except branch: get_system_message and a completion without history
PlainCompletion(answered) ==
    /\ reply.pc = "fallback"
    /\ reply' = [reply EXCEPT !.pc = IF answered THEN "fallback_send"
                                     ELSE "notice"]
    /\ UNCHANGED <<delivered, handled, nonReplyVars>>

\* reply_text with the answer of the plain completion
SendFallback(sent) ==
    /\ reply.pc = "fallback_send"
    /\ IF sent
       THEN /\ delivered' = Append(delivered, "fallback")
            /\ reply' = [reply EXCEPT !.pc = "done"]
       ELSE /\ reply' = [reply EXCEPT !.pc = "notice"]
            /\ UNCHANGED delivered
    /\ UNCHANGED <<handled, nonReplyVars>>

\* reply_text with the formatted error notice
SendNotice(sent) ==
    /\ reply.pc = "notice"
    /\ IF sent
       THEN /\ delivered' = Append(delivered, "error")
            /\ reply' = [reply EXCEPT !.pc = "done"]
       ELSE \* the exception leaves the handler
            /\ reply' = [reply EXCEPT !.pc = "raised"]
            /\ UNCHANGED delivered
    /\ UNCHANGED <<handled, nonReplyVars>>

-----------------------------------------------------------------------------
(* The gateway's rate limit (llm_client.py, _check_rate_limit)             *)

\* RATE_LIMIT_WINDOW, in seconds, and RATE_LIMIT_REQUESTS
RateLimitWindow == 2
RateLimitRequests == 1

\* the tasks that call chat_completion on one client
GateCallers == {"g1", "g2"}

NotWaiting == [pc |-> "idle", wakeAt |-> 0]

\* last_request_time starts at 0, more than a window before any time.time()
RateInit ==
    /\ wall = RateLimitWindow + 1
    /\ requestCount = 0
    /\ lastRequestTime = 0
    /\ waiter = [g \in GateCallers |-> NotWaiting]
    /\ proceeded = <<>>
    /\ windows = {}

\* a second passes
WallTick ==
    /\ wall < MaxWall
    /\ wall' = wall + 1
    /\ UNCHANGED <<requestCount, lastRequestTime, waiter, proceeded,
                   windows, retryVars, nonGateVars>>

\* _check_rate_limit up to its await: the window is reset when it is over;
\* at the limit the caller goes to sleep until the window ends, below it the
\* request is counted and goes on (time.time() is a float: the reading that
\* is the end of the window to the last bit is left out)
CheckRateLimit(g) ==
    LET current == wall
        reset == current - lastRequestTime > RateLimitWindow
        count == IF reset THEN 0 ELSE requestCount
        last  == IF reset THEN current ELSE lastRequestTime
        waitTime == RateLimitWindow - (current - last)
    IN  /\ waiter[g].pc = "idle"
        /\ Len(proceeded) < MaxProceeded
        /\ current - lastRequestTime # RateLimitWindow
        /\ lastRequestTime' = last
        /\ windows' = IF reset THEN windows \cup {current} ELSE windows
        /\ IF count >= RateLimitRequests /\ waitTime > 0
           THEN /\ waiter' = [waiter EXCEPT ![g] =
                                 [pc |-> "sleeping",
                                  wakeAt |-> current + waitTime]]
                /\ requestCount' = count
                /\ UNCHANGED proceeded
           ELSE /\ requestCount' = count + 1
                /\ proceeded' = Append(proceeded, current)
                /\ UNCHANGED waiter
        /\ UNCHANGED <<wall, retryVars, nonGateVars>>

\* _check_rate_limit after asyncio.sleep(wait_time): the counter is set to
\* zero, the window starts now, the request is counted and goes on
RateLimitWaitOver(g) ==
    /\ waiter[g].pc = "sleeping"
    /\ wall >= waiter[g].wakeAt
    /\ Len(proceeded) < MaxProceeded
    /\ requestCount' = 0 + 1
    /\ lastRequestTime' = wall
    /\ windows' = windows \cup {wall}
    /\ proceeded' = Append(proceeded, wall)
    /\ waiter' = [waiter EXCEPT ![g] = NotWaiting]
    /\ UNCHANGED <<wall, retryVars, nonGateVars>>

-----------------------------------------------------------------------------
(* One module's life in the registry, call by call                         *)
(* (module_manager.py: load_module, start_module, the two task bodies,     *)
(* unload_module, get_module_status)                                       *)

\* the file stem of the module and the names its class may have
LifeStem == "alpha"
LifeKeys == {"alpha", "Alpha"}

\* ModuleTrigger, and a trigger type start_module does not know
TriggerTypes == {"time", "event", "other"}

Append2(s, a, b) == Append(Append(s, a), b)

\* ModuleManager.__init__ and _load_states, with the state file the last
\* process left
LifeInit ==
    /\ trigger \in TriggerTypes
    /\ clsKey \in LifeKeys
    /\ kept \in [LifeKeys -> {EmptyState, 1}]
    /\ entry = FALSE
    /\ taskHeld = FALSE
    /\ cached = FALSE
    /\ runner = "none"
    /\ cancelAsked = FALSE
    /\ invoked = 0
    /\ opPc = "idle"
    /\ calls = <<>>
    /\ ended = "none"
    /\ loads = 0
    /\ lifeErrors = <<>>
    /\ runRaised = FALSE

\* run() is executing: the task is inside await module.run()
RunExecuting == runner = "inRun"

\* get_module_status: 'running' if task and not task.done() else 'stopped'
Status == IF taskHeld /\ runner # "done" THEN "running" ELSE "stopped"

\* load_module gives up: the except branch of load_module
LoadFails(cause) ==
    /\ opPc' = "idle"
    /\ ended' = cause
    /\ lifeErrors' = Append(lifeErrors, "load")

\* (mutant of HasPriorState) no state is looked up
HasPriorStateNever(key) == FALSE

\* state = self._get_module_state(module_name); if state:
HasPriorState(key) == kept[key] # EmptyState

\* load_module up to the first await of _initialize_module: the file is
\* executed and its class looked up, the class is constructed and
\* validate_config() is called. how: what these do
LoadBegins(how) ==
    /\ opPc = "idle"
    /\ ~entry
    /\ loads < MaxLoads
    /\ loads' = loads + 1
    /\ cached' = TRUE
    /\ CASE how = "no_class" ->
              /\ calls' = <<>>
              /\ LoadFails("load_error")
         [] how = "construct_raises" ->
              /\ calls' = <<"construct">>
              /\ LoadFails("load_error")
         [] how = "validate_raises" ->
              /\ calls' = <<"construct", "validate_config">>
              /\ LoadFails("load_error")
         [] how = "invalid" ->
              /\ calls' = <<"construct", "validate_config">>
              /\ LoadFails("configuration_error")
         [] how = "valid" ->
              /\ ended' = "none"
              /\ lifeErrors' = lifeErrors
              /\ IF HasPriorState(clsKey)
                 THEN /\ calls' = <<"construct", "validate_config",
                                    "load_state">>
                      /\ opPc' = "inLoadState"
                 ELSE /\ calls' = <<"construct", "validate_config",
                                    "initialize">>
                      /\ opPc' = "inInitialize"
    /\ UNCHANGED <<trigger, clsKey, kept, entry, taskHeld, runner,
                   cancelAsked, invoked, runRaised, nonLifeVars>>

\* await module_instance.load_state(state) returns or raises
LoadStateReturns(raises) ==
    /\ opPc = "inLoadState"
    /\ IF raises
       THEN /\ LoadFails("load_error")
            /\ calls' = calls
       ELSE /\ opPc' = "inInitialize"
            /\ calls' = Append(calls, "initialize")
            /\ ended' = ended
            /\ lifeErrors' = lifeErrors
    /\ UNCHANGED <<trigger, clsKey, kept, entry, taskHeld, cached, runner,
                   cancelAsked, invoked, loads, runRaised, nonLifeVars>>

\* start_module: a task is created for the two trigger types it knows
Starts(type) == type \in {"time", "event"}

\* await module_instance.initialize() returns or raises; when it returns the
\* instance is registered and start_module is called
InitializeReturns(raises) ==
    /\ opPc = "inInitialize"
    /\ IF raises
       THEN /\ LoadFails("load_error")
            /\ UNCHANGED <<entry, taskHeld, runner, invoked, calls,
                           runRaised>>
       ELSE /\ entry' = TRUE
            /\ opPc' = "idle"
            /\ IF Starts(trigger)
               THEN /\ taskHeld' = TRUE
                    /\ runner' = "pending"
                    /\ invoked' = 0
                    /\ runRaised' = FALSE
                    /\ calls' = Append2(calls, "register", "start")
                    /\ ended' = "loaded"
                    /\ lifeErrors' = lifeErrors
               ELSE /\ calls' = Append(calls, "register")
                    /\ ended' = "load_error"
                    /\ lifeErrors' = Append(lifeErrors, "load")
                    /\ UNCHANGED <<taskHeld, runner, invoked, runRaised>>
    /\ UNCHANGED <<trigger, clsKey, kept, cached, cancelAsked, loads,
                   nonLifeVars>>

\* the first step of the task, which the loop runs before it resumes any
\* coroutine that could cancel the task: _run_event_based_module calls run(),
\* _run_time_based_module reaches its first sleep
RunnerStarts ==
    /\ runner = "pending"
    /\ IF trigger = "event"
       THEN /\ runner' = "inRun"
            /\ invoked' = invoked + 1
       ELSE /\ runner' = "waiting"
            /\ invoked' = invoked
    /\ UNCHANGED <<trigger, clsKey, kept, entry, taskHeld, cached,
                   cancelAsked, opPc, calls, ended, loads, lifeErrors,
                   runRaised, nonLifeVars>>

\* _run_time_based_module: a firing or a retry calls run()
RunnerFires ==
    /\ runner = "waiting"
    /\ ~cancelAsked
    /\ invoked < MaxInvoked
    /\ runner' = "inRun"
    /\ invoked' = invoked + 1
    /\ UNCHANGED <<trigger, clsKey, kept, entry, taskHeld, cached,
                   cancelAsked, opPc, calls, ended, loads, lifeErrors,
                   runRaised, nonLifeVars>>

\* (mutant of AfterRun) the event-triggered module is run again
AfterRunAgain(type, raised, notify) == "waiting"

\* where the task goes when run() is over: the loop of a time-triggered
\* module goes on, the task of an event-triggered module ends, after the
\* alert when run() raised and errors are notified
AfterRun(type, raised, notify) ==
    IF type = "time" THEN "waiting"
    ELSE IF raised /\ notify THEN "alerting"
    ELSE "done"

\* run() returns or raises
RunIsOver(raised, notify) ==
    /\ runner = "inRun"
    /\ ~cancelAsked
    /\ runner' = AfterRun(trigger, raised, notify)
    /\ runRaised' = (runRaised \/ raised)
    /\ UNCHANGED <<trigger, clsKey, kept, entry, taskHeld, cached,
                   cancelAsked, invoked, opPc, calls, ended, loads,
                   lifeErrors, nonLifeVars>>

\* _run_event_based_module: bot.send_message returns
AlertDelivered ==
    /\ runner = "alerting"
    /\ ~cancelAsked
    /\ runner' = "done"
    /\ UNCHANGED <<trigger, clsKey, kept, entry, taskHeld, cached,
                   cancelAsked, invoked, opPc, calls, ended, loads, lifeErrors,
                   runRaised, nonLifeVars>>

\* CancelledError is raised at the await the task is suspended at, and the
\* task ends
RunnerCancelled ==
    /\ cancelAsked
    /\ runner \in {"inRun", "waiting", "alerting"}
    /\ runner' = "done"
    /\ cancelAsked' = FALSE
    /\ UNCHANGED <<trigger, clsKey, kept, entry, taskHeld, cached, invoked,
                   opPc, calls, ended, loads, lifeErrors, runRaised, nonLifeVars>>

\* unload_module up to its first await: the task is cancelled and awaited,
\* or, without a task that runs, save_state() is called
UnloadBegins ==
    /\ opPc = "idle"
    /\ entry
    /\ runner # "pending"
    /\ ended' = "none"
    /\ IF taskHeld /\ runner # "done"
       THEN /\ cancelAsked' = TRUE
            /\ calls' = <<"cancel">>
            /\ opPc' = "awaitTask"
            /\ taskHeld' = taskHeld
       ELSE /\ cancelAsked' = cancelAsked
            /\ calls' = <<"save_state">>
            /\ opPc' = "inSaveState"
            /\ taskHeld' = FALSE
    /\ UNCHANGED <<trigger, clsKey, kept, entry, cached, runner, invoked,
                   loads, lifeErrors, runRaised, nonLifeVars>>

\* (mutant of TaskAwaited) unload_module does not wait for the task
TaskNotAwaited(r) == TRUE

\* await task returns when the task is done
TaskAwaited(r) == r = "done"

\* await task is over: the task is forgotten and save_state() is called
AwaitIsOver ==
    /\ opPc = "awaitTask"
    /\ TaskAwaited(runner)
    /\ taskHeld' = FALSE
    /\ calls' = Append(calls, "save_state")
    /\ opPc' = "inSaveState"
    /\ UNCHANGED <<trigger, clsKey, kept, entry, cached, runner,
                   cancelAsked, invoked, ended, loads, lifeErrors, runRaised, nonLifeVars>>

\* unload_module gives up: its except branch
UnloadFails ==
    /\ opPc' = "idle"
    /\ ended' = "unload_failed"

\* await module.save_state() returns state or raises; a state that is not
\* empty is stored, and cleanup() is called
SaveStateReturns(raises, state) ==
    /\ opPc = "inSaveState"
    /\ IF raises
       THEN /\ UnloadFails
            /\ UNCHANGED <<kept, calls>>
       ELSE /\ opPc' = "inCleanup"
            /\ ended' = ended
            /\ IF state # EmptyState
               THEN /\ kept' = [kept EXCEPT ![LifeStem] = state]
                    /\ calls' = Append2(calls, "set_state", "cleanup")
               ELSE /\ kept' = kept
                    /\ calls' = Append(calls, "cleanup")
    /\ UNCHANGED <<trigger, clsKey, entry, taskHeld, cached, runner,
                   cancelAsked, invoked, loads, lifeErrors, runRaised, nonLifeVars>>

\* await module.cleanup() returns or raises; when it returns the module
\* leaves self.modules and sys.modules
CleanupReturns(raises) ==
    /\ opPc = "inCleanup"
    /\ IF raises
       THEN /\ UnloadFails
            /\ UNCHANGED <<entry, cached, calls>>
       ELSE /\ opPc' = "idle"
            /\ ended' = "unloaded"
            /\ entry' = FALSE
            /\ cached' = FALSE
            /\ calls' = Append2(calls, "del_modules", "del_sys_modules")
    /\ UNCHANGED <<trigger, clsKey, kept, taskHeld, runner, cancelAsked,
                   invoked, loads, lifeErrors, runRaised, nonLifeVars>>

-----------------------------------------------------------------------------
(* The callers of reload_modules and the lock of the pass                  *)
(* (module_manager.py, reload_modules; _delayed_reload; bot.py,            *)
(* _cmd_reload_modules)                                                    *)

\* who calls reload_modules: the delayed reload of the watcher and the
\* handlers of two reload commands
PassCallers == {"delayed", "command", "command2"}

LockFree == "free"

\* ModuleManager.__init__: self.reload_lock = asyncio.Lock()
LockInit ==
    /\ reloadLock = LockFree
    /\ reloader = [c \in PassCallers |-> [pc |-> "idle", steps |-> 0]]
    /\ passLog = <<>>
    /\ passes = 0

\* (mutant of MayEnter) the pass is entered whoever holds the lock
MayEnterAnyway(lock) == TRUE

\* async with self.reload_lock: the pass is entered when the lock is free
MayEnter(lock) == lock = LockFree

\* the pass of caller c takes the lock and scans the directory
EntersPass(c) ==
    /\ reloadLock' = c
    /\ reloader' = [reloader EXCEPT ![c] = [pc |-> "inPass", steps |-> 0]]
    /\ passLog' = Append(passLog, <<c, "scan">>)

\* caller c calls reload_modules: it enters the pass, or waits for the lock
CallsReloadModules(c) ==
    /\ reloader[c].pc = "idle"
    /\ passes < MaxPasses
    /\ passes' = passes + 1
    /\ IF MayEnter(reloadLock)
       THEN EntersPass(c)
       ELSE /\ reloader' = [reloader EXCEPT ![c].pc = "waiting"]
            /\ UNCHANGED <<reloadLock, passLog>>
    /\ UNCHANGED nonLockVars

\* the lock is released and caller c, who waited for it, gets it
LockAcquired(c) ==
    /\ reloader[c].pc = "waiting"
    /\ MayEnter(reloadLock)
    /\ EntersPass(c)
    /\ UNCHANGED <<passes, nonLockVars>>

\* the pass of caller c unloads or loads a module
PassStep(c, step) ==
    /\ reloader[c].pc = "inPass"
    /\ reloader[c].steps < MaxSteps
    /\ reloader' = [reloader EXCEPT ![c].steps = @ + 1]
    /\ passLog' = Append(passLog, <<c, step>>)
    /\ UNCHANGED <<reloadLock, passes, nonLockVars>>

\* the pass of caller c is over: reload_modules returns and the lock is
\* released
PassReturns(c) ==
    /\ reloader[c].pc = "inPass"
    /\ reloader' = [reloader EXCEPT ![c].pc = "idle"]
    /\ passLog' = Append(passLog, <<c, "end">>)
    /\ reloadLock' = IF reloadLock = c THEN LockFree ELSE reloadLock
    /\ UNCHANGED <<passes, nonLockVars>>

-----------------------------------------------------------------------------
(* The gateway's retries (llm_client.py, chat_completion and               *)
(* _retry_with_backoff)                                                    *)

\* LLMProvider
Providers == {"openai", "openrouter", "deepseek", "ollama"}

\* module_defaults.api_settings.max_retries
ApiMaxRetries == 3

\* delays are counted in eighths of a second: delay = 1.0, delay = 60 after
\* a RateLimitError, delay *= 1.5
FirstDelay == 8
RateLimitDelay == 480
BackoffNum == 3
BackoffDen == 2

NoCall == [pc |-> "idle", made |-> 0, delay |-> 0, slept |-> <<>>]

RetryInit ==
    /\ provider \in Providers
    /\ attempts = NoCall
    /\ completions = 0

\* chat_completion: the first attempt is made
ChatCompletion ==
    /\ attempts.pc \in {"idle", "ok", "error"}
    /\ completions < MaxCompletions
    /\ attempts' = [pc |-> "request", made |-> 1, delay |-> FirstDelay,
                slept |-> <<>>]
    /\ UNCHANGED <<provider, completions, rateVars, nonGateVars>>

\* the provider answers
RequestSucceeds ==
    /\ attempts.pc = "request"
    /\ attempts' = [attempts EXCEPT !.pc = "ok"]
    /\ completions' = completions + 1
    /\ UNCHANGED <<provider, rateVars, nonGateVars>>

\* chat_completion: _ollama_chat is called directly, the other providers
\* through _retry_with_backoff
Retried(p) == p # "ollama"

\* the request raises; rateLimited: the exception is a RateLimitError
RequestFails(rateLimited) ==
    /\ attempts.pc = "request"
    /\ IF Retried(provider) /\ attempts.made < ApiMaxRetries
       THEN LET delay == IF rateLimited THEN RateLimitDelay ELSE attempts.delay
            IN  /\ attempts' = [attempts EXCEPT
                               !.pc = "backoff",
                               !.slept = Append(@, delay),
                               !.delay = (delay * BackoffNum) \div BackoffDen]
                /\ UNCHANGED completions
       ELSE /\ attempts' = [attempts EXCEPT !.pc = "error"]
            /\ completions' = completions + 1
    /\ UNCHANGED <<provider, rateVars, nonGateVars>>

\* asyncio.sleep(delay) is over: the next attempt is made
BackoffOver ==
    /\ attempts.pc = "backoff"
    /\ attempts' = [attempts EXCEPT !.pc = "request", !.made = @ + 1]
    /\ UNCHANGED <<provider, completions, rateVars, nonGateVars>>

-----------------------------------------------------------------------------
(* stop() beside the calls of a reload pass (module_manager.py: stop,      *)
(* unload_module, load_module, start_module).  The two dicts are kept as   *)
(* CPython keeps them: entries in insertion order, a deleted entry staying *)
(* in place as a dummy, so that what a 'for ... in d.items()' does after   *)
(* the dict was changed during an await is what the interpreter does       *)

StopNames == {"alpha", "beta"}
TaskIds == 1..MaxTasks
Dummy == "dummy"
NoTask == 0

NoEntry == [key |-> Dummy, val |-> NoTask]
Unborn == [name |-> "none", st |-> "unborn"]
PassIdle == [pc |-> "idle", name |-> "none", tid |-> NoTask]
NoIter == [used |-> 0, pos |-> 1, len |-> 0]
StopNotCalled == [pc |-> "idle", it |-> NoIter, name |-> "none",
                  tid |-> NoTask]

\* the keys of a dict, and len(d)
Keys(d) == {d[i].key : i \in {j \in 1..Len(d) : d[j].key # Dummy}}
Used(d) == Cardinality(Keys(d))

\* d[k], del d[k] and d[k] = v
Slot(d, k) == CHOOSE i \in 1..Len(d) : d[i].key = k
ValueAt(d, k) == d[Slot(d, k)].val
Del(d, k) == [d EXCEPT ![Slot(d, k)] = NoEntry]
Put(d, k, v) ==
    IF k \in Keys(d) THEN [d EXCEPT ![Slot(d, k)].val = v]
    ELSE Append(d, [key |-> k, val |-> v])

\* the dict that holds the names, in this order
EntriesOf(names) == [i \in 1..Len(names) |-> [key |-> names[i], val |-> i]]

\* iter(d.items()) and its next(): RuntimeError when the size of the dict is
\* not the one at the start ('dictionary changed size during iteration') or
\* when an entry is found after as many were yielded as the dict had
\* ('dictionary keys changed during iteration'), else the next entry
Iter(d) == [used |-> Used(d), pos |-> 1, len |-> Used(d)]

LiveFrom(d, pos) == {i \in pos..Len(d) : d[i].key # Dummy}

Lowest(S) == CHOOSE i \in S : \A j \in S : i <= j

IterNext(d, it) ==
    IF Used(d) # it.used THEN [how |-> "raise", at |-> 0, it |-> it]
    ELSE IF LiveFrom(d, it.pos) = {} THEN [how |-> "end", at |-> 0, it |-> it]
    ELSE IF it.len = 0 THEN [how |-> "raise", at |-> 0, it |-> it]
    ELSE LET i == Lowest(LiveFrom(d, it.pos))
         IN  [how |-> "yield", at |-> i,
              it |-> [it EXCEPT !.pos = i + 1, !.len = @ - 1]]

\* task.done()
Done(id) == taskState[id].st = "done"

\* the tasks of a module that have not completed
LiveTasks(name) ==
    {id \in TaskIds : taskState[id].name = name
                      /\ taskState[id].st \in {"live", "cancelling"}}

\* task.cancel()
Cancelled(id) == [taskState EXCEPT ![id].st = "cancelling"]

\* the manager is started and has loaded the two modules
StopInit ==
    /\ regEntries \in {EntriesOf(<<"alpha", "beta">>),
                       EntriesOf(<<"beta", "alpha">>)}
    /\ taskEntries = regEntries
    /\ taskState = [id \in TaskIds |->
                      IF id <= Len(regEntries)
                      THEN [name |-> regEntries[id].key, st |-> "live"]
                      ELSE Unborn]
    /\ born = 2
    /\ passOp = PassIdle
    /\ stopOp = StopNotCalled

\* the cancellation reaches the task and the task ends
TaskCancelled(id) ==
    /\ taskState[id].st = "cancelling"
    /\ taskState' = [taskState EXCEPT ![id].st = "done"]
    /\ UNCHANGED <<regEntries, taskEntries, born, passOp, stopOp,
                   nonStopVars>>

\* the run() of an event-triggered module returns and the task ends
TaskEnds(id) ==
    /\ taskState[id].st = "live"
    /\ taskState' = [taskState EXCEPT ![id].st = "done"]
    /\ UNCHANGED <<regEntries, taskEntries, born, passOp, stopOp,
                   nonStopVars>>

\* unload_module and start_module: 'if module_name in self.module_tasks:
\* ... if not task.done()': the task is cancelled and awaited
TaskToAwait(name) ==
    name \in Keys(taskEntries) /\ ~Done(ValueAt(taskEntries, name))

\* unload_module is called by the pass for a loaded module, up to its first
\* await: of the task, or of save_state() and cleanup()
UnloadCalled(name) ==
    /\ passOp.pc = "idle"
    /\ name \in Keys(regEntries)
    /\ IF TaskToAwait(name)
       THEN /\ taskState' = Cancelled(ValueAt(taskEntries, name))
            /\ passOp' = [pc |-> "unloadAwait", name |-> name,
                          tid |-> ValueAt(taskEntries, name)]
            /\ UNCHANGED taskEntries
       ELSE /\ taskEntries' = IF name \in Keys(taskEntries)
                              THEN Del(taskEntries, name) ELSE taskEntries
            /\ passOp' = [pc |-> "unloadClosing", name |-> name,
                          tid |-> NoTask]
            /\ UNCHANGED taskState
    /\ UNCHANGED <<regEntries, born, stopOp, nonStopVars>>

\* start_module: asyncio.create_task and self.module_tasks[name] = task
TaskCreated(name) ==
    /\ born' = born + 1
    /\ taskState' = [taskState EXCEPT ![born + 1] =
                        [name |-> name, st |-> "live"]]
    /\ taskEntries' = Put(taskEntries, name, born + 1)

\* 'await task' of unload_module or of start_module is over.  unload_module
\* goes on to 'del self.module_tasks[module_name]', which raises KeyError
\* when stop() has cleared the dict, and then awaits save_state(); start_module
\* creates the new task
PassTaskAwaited ==
    /\ passOp.pc \in {"unloadAwait", "startAwait"}
    /\ Done(passOp.tid)
    /\ IF passOp.pc = "startAwait"
       THEN /\ TaskCreated(passOp.name)
            /\ passOp' = PassIdle
       ELSE /\ IF passOp.name \in Keys(taskEntries)
               THEN /\ taskEntries' = Del(taskEntries, passOp.name)
                    /\ passOp' = [passOp EXCEPT !.pc = "unloadClosing"]
               ELSE /\ passOp' = PassIdle
                    /\ UNCHANGED taskEntries
            /\ UNCHANGED <<taskState, born>>
    /\ UNCHANGED <<regEntries, stopOp, nonStopVars>>

\* unload_module: save_state() and cleanup() have returned, or one of them
\* has raised; 'del self.modules[module_name]' raises KeyError when stop()
\* has cleared the dict
UnloadClosed(raises) ==
    /\ passOp.pc = "unloadClosing"
    /\ passOp' = PassIdle
    /\ regEntries' = IF ~raises /\ passOp.name \in Keys(regEntries)
                     THEN Del(regEntries, passOp.name) ELSE regEntries
    /\ UNCHANGED <<taskEntries, taskState, born, stopOp, nonStopVars>>

\* load_module is called by the pass for a module that is not loaded, up to
\* the awaits of _initialize_module
LoadCalled(name) ==
    /\ passOp.pc = "idle"
    /\ name \notin Keys(regEntries)
    /\ born < MaxTasks
    /\ passOp' = [pc |-> "loading", name |-> name, tid |-> NoTask]
    /\ UNCHANGED <<regEntries, taskEntries, taskState, born, stopOp,
                   nonStopVars>>

\* load_module: _initialize_module returns or raises; when it returns the
\* instance is stored and start_module cancels and awaits a task the module
\* has, or creates the task at once
LoadInitialized(raises) ==
    /\ passOp.pc = "loading"
    /\ IF raises
       THEN /\ passOp' = PassIdle
            /\ UNCHANGED <<regEntries, taskEntries, taskState, born>>
       ELSE /\ regEntries' = Put(regEntries, passOp.name, NoTask)
            /\ IF TaskToAwait(passOp.name)
               THEN /\ taskState' =
                          Cancelled(ValueAt(taskEntries, passOp.name))
                    /\ passOp' = [passOp EXCEPT
                                    !.pc = "startAwait",
                                    !.tid = ValueAt(taskEntries, passOp.name)]
                    /\ UNCHANGED <<taskEntries, born>>
               ELSE /\ TaskCreated(passOp.name)
                    /\ passOp' = PassIdle
    /\ UNCHANGED <<stopOp, nonStopVars>>

\* stop(), second loop: 'for module_name, module in self.modules.items()'
\* takes its next module and awaits its save_state() and cleanup(); after
\* the last one the two dicts are cleared
StopClosesNext(it) ==
    LET r == IterNext(regEntries, it)
    IN  CASE r.how = "yield" ->
               /\ stopOp' = [pc |-> "closing", it |-> r.it,
                             name |-> regEntries[r.at].key, tid |-> NoTask]
               /\ UNCHANGED <<regEntries, taskEntries>>
          [] r.how = "end" ->
               /\ stopOp' = [StopNotCalled EXCEPT !.pc = "done"]
               /\ regEntries' = <<>>
               /\ taskEntries' = <<>>
          [] r.how = "raise" ->
               /\ stopOp' = [StopNotCalled EXCEPT !.pc = "raised"]
               /\ UNCHANGED <<regEntries, taskEntries>>

\* the first loop from next() to its next await: the tasks that are done are
\* passed over
RECURSIVE NextToCancel(_)
NextToCancel(it) ==
    LET r == IterNext(taskEntries, it)
    IN  IF r.how = "yield" /\ Done(taskEntries[r.at].val)
        THEN NextToCancel(r.it)
        ELSE r

\* stop(), first loop: 'for module_name, task in self.module_tasks.items()'
\* cancels and awaits the next task that is not done; after the last one
\* the second loop begins
StopCancelsNext(it) ==
    LET r == NextToCancel(it)
    IN  CASE r.how = "yield" ->
               /\ taskState' = Cancelled(taskEntries[r.at].val)
               /\ stopOp' = [pc |-> "awaitTask", it |-> r.it,
                             name |-> taskEntries[r.at].key,
                             tid |-> taskEntries[r.at].val]
               /\ UNCHANGED <<regEntries, taskEntries>>
          [] r.how = "end" ->
               /\ StopClosesNext(Iter(regEntries))
               /\ UNCHANGED taskState
          [] r.how = "raise" ->
               /\ stopOp' = [StopNotCalled EXCEPT !.pc = "raised"]
               /\ UNCHANGED <<regEntries, taskEntries, taskState>>

\* stop() is called
StopCalled ==
    /\ stopOp.pc = "idle"
    /\ StopCancelsNext(Iter(taskEntries))
    /\ UNCHANGED <<born, passOp, nonStopVars>>

\* stop(): 'await task' is over
StopTaskAwaited ==
    /\ stopOp.pc = "awaitTask"
    /\ Done(stopOp.tid)
    /\ StopCancelsNext(stopOp.it)
    /\ UNCHANGED <<born, passOp, nonStopVars>>

\* stop(): save_state() and cleanup() of the module have returned, or one of
\* them has raised and the except branch has logged it
StopModuleClosed ==
    /\ stopOp.pc = "closing"
    /\ StopClosesNext(stopOp.it)
    /\ UNCHANGED <<taskState, born, passOp, nonStopVars>>

\* the groups at rest, for the specifications of the other groups
HistIdle == HistInit /\ tiesAscending = FALSE

TimeIdle == TimeInit /\ notifyOnError = TRUE

ModIdle == ModInit /\ files = [stem \in Stems |-> {}]

ChatIdle == ChatInit

ConnIdle == ConnInit

ReplyIdle == ReplyInit

GateIdle == RateInit /\ RetryInit /\ provider = "openai"

LockIdle == LockInit

StopIdle == StopInit /\ regEntries = EntriesOf(<<"alpha", "beta">>)

LifeIdle == LifeInit /\ trigger = "time" /\ clsKey = "Alpha"
                /\ kept = [key \in LifeKeys |-> EmptyState]

-----------------------------------------------------------------------------
(* SpecHist: one chat, its messages and the reads of its history *)

\* the messages written: role, length of the content, model id
Turns ==
    {<<"user", 4, NoModel>>, <<"assistant", 8, "gpt">>,
     <<"system", 8, NoModel>>}

HistChats == {1}
MaxMessagesArgs == {NoLimit, 3}
MaxTokensArgs == {NoLimit, 2}
ModelArgs == {NoModel, "gpt"}
SystemMessages == {4}

HistNext ==
    \/ Tick
    \/ \E chat \in HistChats, t \in Turns :
          AddMessage(chat, t[1], t[2], NoConv, t[3])
    \/ \E chat \in HistChats, maxMessages \in MaxMessagesArgs,
          maxTokens \in MaxTokensArgs, model \in ModelArgs :
          GetConversationHistory(chat, maxMessages, TRUE, NoConv,
                                 maxTokens, model)
    \/ \E chat \in HistChats, sys \in SystemMessages, model \in ModelArgs,
          maxTokens \in MaxTokensArgs, includeSystem \in BOOLEAN :
          CreateChatContext(chat, sys, model, maxTokens, includeSystem)

InitHist ==
    HistInit /\ TimeIdle /\ ModIdle /\ ChatIdle /\ ConnIdle /\ ReplyIdle /\ GateIdle
        /\ LifeIdle
        /\ LockIdle
        /\ StopIdle

SpecHist == InitHist /\ [][HistNext]_vars

-----------------------------------------------------------------------------
(* SpecClear: several chats and conversations, and clearing them *)

ConvArgs == {NoConv} \cup ConvIds

ClearNext ==
    \/ \E chat \in Chats : StartConversation(chat)
    \/ \E chat \in Chats, conv \in ConvArgs :
          AddMessage(chat, "user", 4, conv, NoModel)
    \/ \E chat \in Chats, conv \in ConvArgs : ClearChatHistory(chat, conv)

InitClear ==
    HistInit /\ TimeIdle /\ ModIdle /\ ChatIdle /\ ConnIdle /\ ReplyIdle /\ GateIdle
        /\ LifeIdle
        /\ LockIdle
        /\ StopIdle

SpecClear == InitClear /\ [][ClearNext]_vars

-----------------------------------------------------------------------------
(* SpecTime: the loop that fires a time-triggered module *)

TimeNext ==
    \/ Advance
    \/ LoopTop
    \/ UnexpectedError
    \/ RunSucceeds
    \/ RunFails
    \/ AlertSent
    \/ WakeUp
    \/ CancelLoop

InitTime ==
    TimeInit /\ HistIdle /\ ModIdle /\ ChatIdle /\ ConnIdle /\ ReplyIdle /\ GateIdle
        /\ LifeIdle
        /\ LockIdle
        /\ StopIdle

SpecTime == InitTime /\ [][TimeNext]_vars

-----------------------------------------------------------------------------
(* SpecMod: loading, running and unloading modules *)

ModNext ==
    \/ \E stem \in Stems, classes \in FileContents : EditFile(stem, classes)
    \/ \E stem \in Stems, failAt \in {NoFailure, "initialize"} :
          LoadModule(stem, failAt)
    \/ \E stem \in Stems, state \in ModuleStates : ModuleRuns(stem, state)
    \/ \E stem \in Stems : UnloadModule(stem)
    \/ Stop
    \/ Restart

InitMod ==
    ModInit /\ HistIdle /\ TimeIdle /\ ChatIdle /\ ConnIdle /\ ReplyIdle /\ GateIdle
        /\ LifeIdle
        /\ LockIdle
        /\ StopIdle

SpecMod == InitMod /\ [][ModNext]_vars

-----------------------------------------------------------------------------
(* SpecChat: concurrent requests for a completion on the chats' history *)

ChatNext ==
    \/ \E t \in Handlers, chat \in Chats : HandlerStarts(t, chat)
    \/ \E t \in Handlers : AcquireLock(t)
    \/ \E t \in ModuleTasks, chat \in Chats, useHistory \in BOOLEAN :
          ModuleStarts(t, chat, useHistory)
    \/ \E t \in Tasks : PersistUser(t)
    \/ \E t \in Tasks : BuildContext(t)
    \/ \E t \in Tasks, ok \in BOOLEAN : ProviderAnswers(t, ok)
    \/ \E t \in Tasks : PersistAssistant(t)
    \/ \E t \in Tasks, ok \in BOOLEAN : FallbackAnswers(t, ok)
    \/ \E t \in Tasks : FallbackPersistUser(t)
    \/ \E t \in Tasks : FallbackPersistAssistant(t)
    \/ \E t \in ModuleTasks, ok \in BOOLEAN : PlainAnswers(t, ok)
    \/ \E t \in ModuleTasks : PlainPersistUser(t)
    \/ \E t \in ModuleTasks : PlainPersistAssistant(t)
    \/ \E t \in Handlers : HandlerReplies(t)
    \/ \E chat \in Chats : ClearCommand(chat)

InitChat ==
    ChatInit /\ HistIdle /\ TimeIdle /\ ModIdle /\ ConnIdle /\ ReplyIdle /\ GateIdle
        /\ LifeIdle
        /\ LockIdle
        /\ StopIdle

SpecChat == InitChat /\ [][ChatNext]_vars

-----------------------------------------------------------------------------
(* SpecConn: add_message statement by statement, on the shared connection *)

ConnNext ==
    \/ Tick
    \/ \E c \in Callers, chat \in Chats : BeginAdd(c, chat)
    \/ \E c \in Callers : SelectConversation(c)
    \/ \E c \in Callers : InsertConversation(c)
    \/ \E c \in Callers : CommitConversation(c)
    \/ \E c \in Callers : InsertMessage(c)
    \/ \E c \in Callers : UpdateConversation(c)
    \/ \E c \in Callers : CommitMessage(c)
    \/ \E c \in Callers : AddMessageRaises(c)

InitConn ==
    ConnInit /\ HistInit /\ TimeIdle /\ ModIdle /\ ChatIdle /\ ReplyIdle /\ GateIdle
        /\ LifeIdle
        /\ LockIdle
        /\ StopIdle

SpecConn == InitConn /\ [][ConnNext]_vars

-----------------------------------------------------------------------------
(* SpecReload: the module directory changes and reload passes run *)

\* what the module files hold here: no class, or one
ReloadContents == {{}, {"alpha"}}

ReloadNext ==
    \/ \E stem \in Stems, classes \in ReloadContents : CreateFile(stem, classes)
    \/ \E stem \in Stems, classes \in ReloadContents : EditFile(stem, classes)
    \/ \E stem \in Stems : DeleteFile(stem)
    \/ ReloadCommand
    \/ \E stem \in Stems : PassUnloads(stem)
    \/ \E stem \in Stems : PassSkips(stem)
    \/ \E stem \in Stems, failAt \in LoadSteps \cup {NoFailure} :
          PassLoads(stem, failAt)
    \/ EndPass

InitReload ==
    ModInit /\ files \in [Stems -> ReloadContents] /\ HistIdle /\ TimeIdle
        /\ ChatIdle /\ ConnIdle /\ ReplyIdle /\ GateIdle
        /\ LifeIdle
        /\ LockIdle
        /\ StopIdle

SpecReload == InitReload /\ [][ReloadNext]_vars

-----------------------------------------------------------------------------
(* SpecWatch: the watcher notifies changes of healthy module files, and    *)
(* the passes that are scheduled do run                                    *)

WatchContents == {{"alpha"}, {"Alpha"}}

WatchNext ==
    \/ \E stem \in Stems, classes \in WatchContents : CreateFile(stem, classes)
    \/ \E stem \in Stems, classes \in WatchContents : EditFile(stem, classes)
    \/ \E stem \in Stems : DeleteFile(stem)
    \/ \E onLoopThread \in BOOLEAN : ScheduleReload(onLoopThread)
    \/ DelayedReload
    \/ ReloadCommand
    \/ \E stem \in Stems : PassUnloads(stem)
    \/ \E stem \in Stems : PassSkips(stem)
    \/ \E stem \in Stems : PassLoads(stem, NoFailure)
    \/ EndPass

\* a sleeping _delayed_reload wakes up and a pass that runs goes on
WatchFairness ==
    /\ WF_vars(DelayedReload)
    /\ WF_vars(\E stem \in Stems : PassUnloads(stem))
    /\ WF_vars(\E stem \in Stems : PassSkips(stem))
    /\ WF_vars(\E stem \in Stems : PassLoads(stem, NoFailure))
    /\ WF_vars(EndPass)

InitWatch ==
    ModInit /\ files \in [Stems -> WatchContents] /\ HistIdle /\ TimeIdle
        /\ ChatIdle /\ ConnIdle /\ ReplyIdle /\ GateIdle
        /\ LifeIdle
        /\ LockIdle
        /\ StopIdle

SpecWatch == InitWatch /\ [][WatchNext]_vars /\ WatchFairness

-----------------------------------------------------------------------------
(* SpecReply: the handler of chat messages and what the user receives *)

PartsArgs == 1..MaxParts

ReplyNext ==
    \/ MessageArrives
    \/ \E sent \in BOOLEAN : TypingSent(sent)
    \/ \E outcome \in Kinds, parts \in PartsArgs :
          ContextAwareCompletion(outcome, parts)
    \/ \E sent \in BOOLEAN : SendPart(sent)
    \/ \E answered \in BOOLEAN : PlainCompletion(answered)
    \/ \E sent \in BOOLEAN : SendFallback(sent)
    \/ \E sent \in BOOLEAN : SendNotice(sent)

InitReply ==
    ReplyInit /\ HistIdle /\ TimeIdle /\ ModIdle /\ ChatIdle /\ ConnIdle
        /\ GateIdle
        /\ LifeIdle
        /\ LockIdle
        /\ StopIdle

SpecReply == InitReply /\ [][ReplyNext]_vars

-----------------------------------------------------------------------------
(* SpecRate: callers of one client at the rate limit *)

RateNext ==
    \/ WallTick
    \/ \E g \in GateCallers : CheckRateLimit(g)
    \/ \E g \in GateCallers : RateLimitWaitOver(g)

InitRate ==
    RateInit /\ RetryInit /\ provider = "openai" /\ HistIdle /\ TimeIdle
        /\ ModIdle /\ ChatIdle /\ ConnIdle /\ ReplyIdle
        /\ LifeIdle
        /\ LockIdle
        /\ StopIdle

SpecRate == InitRate /\ [][RateNext]_vars

-----------------------------------------------------------------------------
(* SpecRetry: completion requests that fail, for each provider *)

RetryNext ==
    \/ ChatCompletion
    \/ RequestSucceeds
    \/ \E rateLimited \in BOOLEAN : RequestFails(rateLimited)
    \/ BackoffOver

InitRetry ==
    RetryInit /\ RateInit /\ HistIdle /\ TimeIdle /\ ModIdle /\ ChatIdle
        /\ ConnIdle /\ ReplyIdle
        /\ LifeIdle
        /\ LockIdle
        /\ StopIdle

SpecRetry == InitRetry /\ [][RetryNext]_vars

-----------------------------------------------------------------------------
(* SpecLife: one module is loaded, runs and is unloaded, call by call *)

LoadHows == {"no_class", "construct_raises", "validate_raises", "invalid",
             "valid"}

LifeNext ==
    \/ \E how \in LoadHows : LoadBegins(how)
    \/ \E raises \in BOOLEAN : LoadStateReturns(raises)
    \/ \E raises \in BOOLEAN : InitializeReturns(raises)
    \/ RunnerStarts
    \/ RunnerFires
    \/ \E raised, notify \in BOOLEAN : RunIsOver(raised, notify)
    \/ AlertDelivered
    \/ RunnerCancelled
    \/ UnloadBegins
    \/ AwaitIsOver
    \/ \E raises \in BOOLEAN, state \in {EmptyState, 1} :
          SaveStateReturns(raises, state)
    \/ \E raises \in BOOLEAN : CleanupReturns(raises)

InitLife ==
    LifeInit /\ HistIdle /\ TimeIdle /\ ModIdle /\ ChatIdle /\ ConnIdle
        /\ ReplyIdle /\ GateIdle
        /\ LockIdle
        /\ StopIdle

SpecLife == InitLife /\ [][LifeNext]_vars

-----------------------------------------------------------------------------
(* SpecLock: reload_modules is called while a pass runs *)

LockNext ==
    \/ \E c \in PassCallers : CallsReloadModules(c)
    \/ \E c \in PassCallers : LockAcquired(c)
    \/ \E c \in PassCallers, step \in {"unload", "load"} : PassStep(c, step)
    \/ \E c \in PassCallers : PassReturns(c)

InitLock ==
    LockInit /\ HistIdle /\ TimeIdle /\ ModIdle /\ ChatIdle /\ ConnIdle
        /\ ReplyIdle /\ GateIdle /\ LifeIdle
        /\ StopIdle

SpecLock == InitLock /\ [][LockNext]_vars

-----------------------------------------------------------------------------
(* SpecStop: the calls of reload passes go on while stop() runs *)

StopNext ==
    \/ \E id \in TaskIds : TaskCancelled(id)
    \/ \E id \in TaskIds : TaskEnds(id)
    \/ \E name \in StopNames : UnloadCalled(name)
    \/ PassTaskAwaited
    \/ \E raises \in BOOLEAN : UnloadClosed(raises)
    \/ \E name \in StopNames : LoadCalled(name)
    \/ \E raises \in BOOLEAN : LoadInitialized(raises)
    \/ StopCalled
    \/ StopTaskAwaited
    \/ StopModuleClosed

InitStop ==
    StopInit /\ HistIdle /\ TimeIdle /\ ModIdle /\ ChatIdle /\ ConnIdle
        /\ ReplyIdle /\ GateIdle /\ LifeIdle
        /\ LockIdle

SpecStop == InitStop /\ [][StopNext]_vars

-----------------------------------------------------------------------------
(* Properties of the store and of the context assembler *)

\* the history part of what the last read returned
HistoryPart(op) == IF op.op = "context" THEN Tail(op.result) ELSE op.result

IsRead(op) == op.op \in {"history", "context"}

Ids(rows) == [i \in 1..Len(rows) |-> rows[i].id]

RowOf(id) == CHOOSE m \in msgs : m.id = id

\* C1: token-budget containment. In every context create_chat_context
\* returns, the tokens of the system message plus the tokens of the selected
\* history are at most the token budget (the one given, else the configured
\* one) minus the safety margin.
TokenBudgetContainment ==
    lastOp.op = "context" =>
        SumTok(lastOp.result)
            <= TokenBudget(lastOp.maxTokens) - TokenSafetyMargin

\* C2: contiguity of truncation. What get_conversation_history returns is,
\* read backwards, a prefix of the fetched rows (newest first): the k newest
\* fetched rows and nothing older; and when a fetched row is left out, the
\* newest row left out is one that did not fit the budget.
ContiguousTruncation ==
    IsRead(lastOp) =>
        \E k \in 0..Len(lastOp.fetched) :
            /\ Ids(HistoryPart(lastOp)) = Reverse(SubSeq(lastOp.fetched, 1, k))
            /\ k < Len(lastOp.fetched) =>
                  SumTok(HistoryPart(lastOp))
                      + TokenOf(RowOf(lastOp.fetched[k + 1]), lastOp.model)
                  > EffectiveMaxTokens(lastOp.maxTokens)

\* C2, witness: three rows were fetched, only the newest was returned, and
\* the oldest alone would still have fitted the budget beside it
TruncatedWithRoomLeft ==
    /\ lastOp.op = "history"
    /\ Len(lastOp.fetched) = 3
    /\ Len(lastOp.result) = 1
    /\ SumTok(lastOp.result)
           + TokenOf(RowOf(lastOp.fetched[3]), lastOp.model)
       <= EffectiveMaxTokens(lastOp.maxTokens)

\* C3: chronological output. The history entries a read returns are in
\* ascending order of timestamp, entries of one timestamp in ascending order
\* of message id, and a context starts with the caller's system message.
ChronologicalOutput ==
    IsRead(lastOp) =>
        /\ \A i, j \in 1..Len(HistoryPart(lastOp)) :
              i < j =>
                 LET a == HistoryPart(lastOp)[i]
                     b == HistoryPart(lastOp)[j]
                 IN  a.ts < b.ts \/ (a.ts = b.ts /\ a.id < b.id)
        /\ lastOp.op = "context" =>
              /\ lastOp.result[1].role = "system"
              /\ lastOp.result[1].len = lastOp.sys

\* C6: idempotent read backfill. A get_conversation_history that repeats the
\* one before it, with the same arguments and no write in between, returns
\* the same entries with the same token counts and writes nothing.
IdempotentReadBackfill ==
    (lastOp.op = "history" /\ lastOp.rep) =>
        /\ lastOp.result = lastOp.prevResult
        /\ lastOp.writes = 0

\* C6, witness: the repeated read follows one that backfilled token counts
\* of rows it returned
RepeatedAfterBackfill ==
    /\ lastOp.op = "history"
    /\ lastOp.rep
    /\ lastOp.prevWrites > 0
    /\ lastOp.result # <<>>
    /\ lastOp.model # NoModel

\* C7: clear-history completeness. After clear_chat_history without a
\* conversation id, get_conversation_history returns the empty list for every
\* conversation of the chat, whatever its other arguments, and the table of
\* conversations is as it was.
ClearHistoryCompleteness ==
    (lastOp.op = "clear" /\ lastOp.conv = NoConv) =>
        /\ convs = lastOp.convsBefore
        /\ \A c \in ConvsOfChat(lastOp.chat), maxMessages \in MaxMessagesArgs,
              includeSystem \in BOOLEAN, maxTokens \in MaxTokensArgs,
              model \in ModelArgs :
              History(lastOp.chat, maxMessages, includeSystem, c, maxTokens,
                      model).result = <<>>

\* C7, witness: the chat had two conversations, rows were deleted, and a row
\* of another chat is still there
ClearedSeveralConversations ==
    /\ lastOp.op = "clear"
    /\ lastOp.conv = NoConv
    /\ Cardinality(ConvsOfChat(lastOp.chat)) >= 2
    /\ lastOp.writes >= 2
    /\ msgs # {}

\* C38: for every max_tokens and token_safety_margin, max_tokens at or below
\* the margin included, the token counts of the messages that
\* get_conversation_history returns sum to at most
\* max(0, max_tokens - token_safety_margin).
HistoryBudgetAtEveryBudget ==
    lastOp.op = "history" =>
        SumTok(lastOp.result)
            <= Max(0, TokenBudget(lastOp.maxTokens) - TokenSafetyMargin)


\* C39: after clear_chat_history(chat_id) without a conversation id, no
\* message row whose chat id is chat_id remains in the store, the rows that
\* add_message inserted with an explicitly given conversation id included.
ClearRemovesEveryRow ==
    (lastOp.op = "clear" /\ lastOp.conv = NoConv) =>
        \A m \in msgs : m.chat # lastOp.chat

-----------------------------------------------------------------------------
(* Properties of the loop of a time-triggered module *)

\* C8: when run() fails k times, 1 <= k <= max_retries, and then succeeds
\* within one firing, retry_count is back at zero, no alert was sent for
\* the firing, and the next firing is due one interval after the time at
\* which the successful run() was invoked.
RetryThenSuccessAnchoring ==
    (firing.outcome = "ok" /\ firing.fails >= 1) =>
        /\ firing.fails <= MaxRetries
        /\ retryCount = 0
        /\ firing.alerts = 0
        /\ nextRun = firing.start + Interval

\* a firing that succeeded at its last allowed attempt, later than its first
SucceededAfterRetries ==
    /\ firing.outcome = "ok"
    /\ firing.fails = MaxRetries
    /\ firing.first < firing.start
    /\ nextRun > firing.first + Interval

\* C21 as claimed: when the loop has given up on a firing, next_run is
\* still the time the firing was scheduled for, which the firing's first
\* attempt had reached.
GiveUpKeepsSchedule ==
    firing.outcome = "gaveUp" => nextRun <= firing.first

\* C21 as amended: when the loop has given up on a firing, next_run is one
\* interval after the time the last failed run() was invoked at, and run()
\* is not invoked for the next firing before that time.
GiveUpAdvancesSchedule ==
    /\ firing.outcome = "gaveUp" => nextRun = firing.start + Interval
    /\ (loopPc = "running" /\ firing.runs = 1) => firing.start >= nextRun

\* the loop gave up after the first attempt and all retries, and the next
\* firing is not due yet
GaveUpAndWaits ==
    /\ firing.outcome = "gaveUp"
    /\ firing.fails = MaxRetries + 1
    /\ firing.first < firing.start
    /\ nextRun > clock

\* the invocations of run() in a firing are at most 1 + max_retries, and a
\* retry comes retry_delay or more after the failure before it, with
\* next_run where it was
RetriesBounded ==
    /\ firing.runs <= 1 + MaxRetries
    /\ (loopPc = "running" /\ firing.runs >= 2) =>
          /\ firing.start >= firing.failedAt + RetryDelay
          /\ nextRun <= firing.first
    /\ firing.outcome = "retrying" => nextRun <= firing.first

CleanCancellation ==
    loopPc = "cancelled" =>
        /\ exited.how = "break"
        /\ firing.runs = exited.runs
        /\ alerts = exited.alerts

-----------------------------------------------------------------------------
(* Properties of the module registry *)

\* C5: a module that is loaded after it was unloaded or stopped gets, through
\* load_state(), exactly the state its save_state() returned then (an empty
\* state needs no call).
ModuleStateRoundTrip ==
    \A stem \in Loaded :
        saved[stem] # NoState =>
            \/ modules[stem].passed = saved[stem]
            \/ modules[stem].passed = NotCalled /\ saved[stem] = EmptyState

\* C10: a module is only registered from a file that holds exactly one
\* qualifying class.
ExactlyOneQualifyingClass ==
    \A stem \in Loaded : modules[stem].found = 1

-----------------------------------------------------------------------------
(* Properties of the requests for a completion *)

\* C4: in the stored messages of a chat, the assistant message of a request
\* comes right after the user message of that same request: no other request
\* on the chat and no clearing of the chat gets between the two.
PerChatOrdering ==
    \A i \in 1..Len(log) :
        log[i].role = "assistant" =>
            \E j \in 1..(i - 1) :
                /\ log[j] = [log[i] EXCEPT !.role = "user"]
                /\ \A k \in (j + 1)..(i - 1) : log[k].chat # log[i].chat

\* the handlers that are inside 'async with self._chat_locks[lock_key]' for
\* the chat
InGuard(chat) ==
    {t \in Handlers : task[t].chat = chat /\ task[t].pc \notin {"idle", "waitLock"}}

\* C28: at most one handler is inside the guarded sequence of a chat, and it
\* holds that chat's lock; a handler waits only while a handler of its own
\* chat holds the lock or has just released it; a chat has a lock once a
\* handler has reached the guard for it, no chat has one before, and a lock
\* that is in the map stays there.
PerChatGuard ==
    /\ [](\A chat \in Chats :
            /\ Cardinality(InGuard(chat)) <= 1
            /\ \A t \in InGuard(chat) : chatLocks[chat] = t
            /\ \A t \in Handlers :
                  (task[t].pc = "waitLock" /\ task[t].chat = chat) =>
                      /\ chatLocks[chat] \in (Handlers \ {t}) \cup {Free}
                      /\ chatLocks[chat] \in Handlers =>
                            task[chatLocks[chat]].chat = chat
            /\ (\E t \in Handlers : task[t].pc # "idle" /\ task[t].chat = chat)
                  => chatLocks[chat] # NoLock)
    /\ [][\A chat \in Chats :
            /\ chatLocks[chat] # NoLock => chatLocks'[chat] # NoLock
            /\ (chatLocks[chat] = NoLock /\ chatLocks'[chat] # NoLock) =>
                  \E t \in Handlers :
                      /\ task[t].pc = "idle"
                      /\ task'[t].pc # "idle"
                      /\ task'[t].chat = chat]_vars

\* one handler waits for the lock of its chat while another holds it, and
\* the other chat has no lock yet
HandlerWaitsForItsChat ==
    \E t, u \in Handlers, chat, other \in Chats :
        /\ t # u
        /\ chat # other
        /\ task[t].pc = "waitLock"
        /\ task[t].chat = chat
        /\ u \in InGuard(chat)
        /\ chatLocks[other] = NoLock


\* the rows of a role that a request has stored
RowsOfRequest(req, role) ==
    {i \in 1..Len(log) : log[i].req = req /\ log[i].role = role}

\* C34: one call of get_context_aware_completion stores at most one user
\* row for its message and at most one assistant row, whether or not its
\* fallback path runs.
TurnPersistedOnce ==
    \A req \in 1..MaxRequests :
        /\ Cardinality(RowsOfRequest(req, "user")) <= 1
        /\ Cardinality(RowsOfRequest(req, "assistant")) <= 1

-----------------------------------------------------------------------------
(* Properties of the store's connection *)

\* C9: no caller that works on another chat commits a message row between
\* its insert and the update of its conversation's last-activity timestamp.
AddMessageAtomicity ==
    \A c \in Callers :
        caller[c].pc = "update" =>
            \A m \in durable.msgs :
                m.id = caller[c].id => durable.chat = caller[c].chat

\* C12: once a module is unloaded, the entry of the state file under the
\* module's name is the state its save_state() returned at the unload, as
\* JSON writes it, an empty state included (no entry reads as the empty
\* state).
StatePersistedAfterUnload ==
    \A stem \in Stems \ Loaded :
        saved[stem] # NoState =>
            JsonRoundTrip(GetModuleState(SaveKey(stem)))
                = JsonRoundTrip(saved[stem])


\* C35: when add_message has raised after its INSERT has run, the row of
\* that call never becomes durable, a later commit of another operation on
\* the shared connection included.
FailedWriteNotDurable ==
    \A m \in durable.msgs : m.id \notin failedAdds

-----------------------------------------------------------------------------
(* Properties of the reload pass and of the watcher *)

\* C11: when a reload pass is over, every candidate whose load raised has a
\* new entry in its error log, and every other candidate is loaded, with a
\* running task if the pass loaded it: a failure stops no other load.
LoadFailureIsolation ==
    pass.pc = "done" =>
        \A stem \in pass.candidates :
            /\ stem \in pass.failed =>
                  moduleErrors[stem] > pass.errorsBefore[stem]
            /\ stem \notin pass.failed => stem \in Loaded
            /\ stem \in pass.attempted \ pass.failed => stem \in moduleTasks

\* a pass in which one candidate failed to load and another was loaded
FailedAndLoadedInOnePass ==
    /\ pass.pc = "done"
    /\ pass.failed # {}
    /\ pass.attempted \ pass.failed # {}
    /\ pass.attempted \ pass.failed \subseteq Loaded \cap moduleTasks

\* C13: after every notification of the watcher a reload pass scans the
\* directory.
HotReloadIsLive == unseen ~> ~unseen

\* C25: when a reload pass is over in which no unload, no look at a file
\* and no load failed, (a) no module is loaded whose file the scan did not
\* find, (b) every module that was loaded and older than its file at the
\* scan was unloaded and loaded again, (c) every file the scan found without
\* a loaded module was loaded, and the loaded modules are the stems the scan
\* found.
ReloadPassOutcome ==
    (pass.pc = "done" /\ pass.failed = {} /\ pass.unchecked = {}) =>
        /\ (pass.loadedBefore \ pass.candidates) \cap Loaded = {}
        /\ (pass.loadedBefore \cap pass.staleBefore \cap pass.candidates)
              \subseteq pass.attempted
        /\ (pass.candidates \ pass.loadedBefore) \subseteq pass.attempted
        /\ pass.attempted \subseteq moduleTasks
        /\ Loaded = pass.candidates

\* a pass without a failure is over that unloaded a module whose file was
\* gone and loaded another one again
PassUnloadedAndReloaded ==
    /\ pass.pc = "done"
    /\ pass.failed = {}
    /\ pass.unchecked = {}
    /\ pass.loadedBefore \ pass.candidates # {}
    /\ pass.loadedBefore \cap pass.staleBefore \cap pass.candidates # {}

\* C26: at most one delayed reload is pending, and the notifications of a
\* burst are collapsed into one pass: while reload_scheduled is set, so that
\* further notifications are dropped, the one delayed reload is pending or a
\* pass is in flight.
DebounceCollapse ==
    /\ delayed <= 1
    /\ reloadScheduled => (delayed = 1 \/ pass.pc = "running")

\* C31: no step of a reload pass touches a loaded module whose file is
\* there and is not newer than the instance: the instance and its state stay
\* as they are, its task stays, and nothing is saved for it (its
\* save_state(), cleanup() and initialize() are the unload and the load the
\* pass does not do).
UnmodifiedLeftAlone ==
    [][\A stem \in Stems :
          (/\ pass.pc = "running"
           /\ pass'.pc \in {"running", "done"}
           /\ stem \in Loaded
           /\ stem \in present
           /\ stem \notin modified) =>
              /\ modules'[stem] = modules[stem]
              /\ (stem \in moduleTasks) = (stem \in moduleTasks')
              /\ saved'[stem] = saved[stem]
              /\ states'[SaveKey(stem)] = states[SaveKey(stem)]
              /\ moduleErrors'[stem] = moduleErrors[stem]]_vars

\* a pass is over that passed over a module it found loaded and loaded
\* another file
PassSkippedOne ==
    /\ pass.pc = "done"
    /\ \E stem \in pass.loadedBefore \cap pass.candidates :
          /\ stem \notin pass.attempted
          /\ stem \notin pass.staleBefore
          /\ stem \in Loaded
    /\ pass.attempted # {}


\* C36: a notification that arrives while a reload pass is in flight, after
\* that pass has scanned the directory, is followed by a later pass whose
\* scan comes after the notification.
NoLostNotification ==
    (pass.pc = "running" /\ unseen) ~> ~unseen

-----------------------------------------------------------------------------
(* Properties of the conversations of a chat *)

\* the conversation a step of start_conversation or add_message was active in
Touched ==
    IF lastOp'.op = "start" THEN Len(convs')
    ELSE (CHOOSE m \in msgs' \ msgs : TRUE).conv

\* C14: after start_conversation or add_message the current conversation of
\* the chat, the one get_or_create_conversation returns, is the conversation
\* the call was active in; add_message without a conversation id creates a
\* conversation only for a chat that has none; the conversations there were
\* stay with their chats.
CurrentConversation ==
    [][lastOp'.op \in {"start", "add"} =>
          /\ CurrentIn(convs', convs'[Touched].chat) = Touched
          /\ (lastOp'.op = "add" /\ Len(convs') > Len(convs)) =>
                ConvsOfChat(convs'[Touched].chat) = {}
          /\ \A c \in ConvIds : convs'[c].chat = convs[c].chat]_vars

-----------------------------------------------------------------------------
(* Properties of the assembled context *)

\* the stored rows of a role that a chat's conversation holds
RowsOfChat(chat, includeSystem) ==
    {m \in msgs : /\ m.conv = CurrentConv(chat)
                  /\ (includeSystem \/ m.role # "system")}

\* C15: a context starts with one system entry that holds the caller's system
\* message; the entries after it are stored rows, with the role and the
\* content of the row, and they are the newest fetched rows, oldest first;
\* system rows are not fetched when include_system is false, and are
\* fetched like any other row when it is true.
ContextShape ==
    lastOp.op = "context" =>
        LET context == lastOp.result
            history == Tail(context)
            fetched == lastOp.fetched
        IN  /\ Len(context) >= 1
            /\ context[1].id = 0
            /\ context[1].role = "system"
            /\ context[1].len = lastOp.sys
            /\ \A i \in 1..Len(history) :
                  /\ history[i].id \in {m.id : m \in msgs}
                  /\ history[i].role = RowOf(history[i].id).role
                  /\ history[i].len = RowOf(history[i].id).len
            /\ Ids(history) = Reverse(SubSeq(fetched, 1, Len(history)))
            /\ ~lastOp.includeSystem =>
                  \A i \in 1..Len(history) : history[i].role # "system"
            /\ Cardinality(RowsOfChat(lastOp.chat, lastOp.includeSystem))
                    <= MaxHistoryLength =>
                  Range(fetched) =
                      {m.id : m \in RowsOfChat(lastOp.chat,
                                               lastOp.includeSystem)}

\* a context with the caller's system message first and a system row of the
\* history after it
SystemRowAfterSystemMessage ==
    /\ lastOp.op = "context"
    /\ lastOp.includeSystem
    /\ Len(lastOp.result) >= 3
    /\ lastOp.result[1].id = 0
    /\ \E i \in 2..Len(lastOp.result) :
          lastOp.result[i].role = "system" /\ lastOp.result[i].id # 0

\* the store holds the first turn of a chat and nothing else: the user's
\* message, then the assistant's reply, in one conversation
FirstTurnStored ==
    /\ Cardinality(msgs) = 2
    /\ \E u, a \in msgs :
          /\ u.id = 1 /\ u.role = "user"
          /\ a.id = 2 /\ a.role = "assistant"
          /\ u.conv = a.conv /\ u.chat = a.chat

\* C16: the context of a chat without stored rows is the system message
\* alone; the context of a chat whose store holds a user message and then
\* the assistant's reply, both within the budget, is the system message, the
\* user message, the reply, in that order.
FirstTurnScenario ==
    lastOp.op = "context" =>
        /\ msgs = {} => Len(lastOp.result) = 1 /\ lastOp.result[1].id = 0
        /\ (FirstTurnStored /\ Len(lastOp.result) = 3) =>
              Ids(lastOp.result) = <<0, 1, 2>>

\* C17: when a conversation holds more rows than max_history_length, a read
\* with the default limits that returns max_history_length rows returns the
\* rows inserted last, in the order of their insertion.
MessageCountWindow ==
    (/\ lastOp.op = "history"
     /\ lastOp.maxMessages = NoLimit
     /\ lastOp.maxTokens = NoLimit
     /\ Cardinality(msgs) > MaxHistoryLength
     /\ Len(lastOp.result) = MaxHistoryLength) =>
        Ids(lastOp.result) =
            [i \in 1..MaxHistoryLength |-> msgSeq - MaxHistoryLength + i]

-----------------------------------------------------------------------------
(* Properties of the handler of a chat message *)

\* C18: when the handler is through with a message, the user has received
\* messages of one kind for it: the normal reply, a reply without history or
\* the error notice; of no kind only when the sending of a message failed
\* and the error notice could not be sent either.
ExactlyOneOutcome ==
    /\ reply.pc = "done" => Cardinality(Range(delivered)) = 1
    /\ reply.pc = "raised" => Cardinality(Range(delivered)) <= 1

-----------------------------------------------------------------------------
(* Properties of the provider gateway *)

\* C19: a completion request ends in an error only after the configured
\* number of attempts, with a sleep between two attempts, each longer than
\* the one before, whatever the provider.
ProviderRetry ==
    attempts.pc = "error" =>
        /\ attempts.made = ApiMaxRetries
        /\ Len(attempts.slept) = ApiMaxRetries - 1
        /\ \A i \in 1..(Len(attempts.slept) - 1) : attempts.slept[i + 1] > attempts.slept[i]

\* the requests let through in the window that started at time start
InWindow(start) ==
    {i \in 1..Len(proceeded) :
        proceeded[i] >= start /\ proceeded[i] < start + RateLimitWindow}

\* C20: of the requests of all callers, at most rate_limit_requests were let
\* through within each rate-limit window the gateway started.
RateLimiting ==
    \A start \in windows : Cardinality(InWindow(start)) <= RateLimitRequests

-----------------------------------------------------------------------------
(* Properties of one module's life in the registry *)

IsPrefix(s, t) == Len(s) <= Len(t) /\ SubSeq(t, 1, Len(s)) = s

\* what a whole unload_module does, with a task to cancel or without, and
\* with a state to store or without
UnloadCalls(cancelled, stored) ==
    (IF cancelled THEN <<"cancel">> ELSE <<>>) \o <<"save_state">>
    \o (IF stored THEN <<"set_state">> ELSE <<>>)
    \o <<"cleanup", "del_modules", "del_sys_modules">>

\* what a whole load_module does, with a prior state or without
LoadCalls(prior) ==
    <<"construct", "validate_config">>
    \o (IF prior THEN <<"load_state">> ELSE <<>>)
    \o <<"initialize", "register", "start">>

EventSupervision ==
    /\ [](trigger = "event" =>
            /\ invoked <= 1
            /\ runner \in {"inRun", "alerting", "done"} => invoked = 1
            /\ invoked = 1 => runner \in {"inRun", "alerting", "done"}
            /\ (entry /\ runner = "done") => Status = "stopped")
    /\ [][(trigger = "event" /\ entry /\ entry' /\ runner = "done") =>
             (runner' = "done" /\ invoked' = invoked /\ Status' = "stopped")]_vars

\* the run() of an event-triggered module is over and the module is still
\* registered, with its task done
EventModuleStopped ==
    /\ trigger = "event"
    /\ entry
    /\ taskHeld
    /\ runner = "done"
    /\ invoked = 1
    /\ Status = "stopped"


\* get_module_status: 'errors': self.module_errors.get(module_name, [])
StatusErrors == lifeErrors

\* C32: when the run() of an event-triggered module has failed and its task
\* has ended, the failure is recorded against the module: status reporting
\* shows it among the module's error strings
ExecutionErrorsRecorded ==
    (trigger = "event" /\ runner = "done" /\ runRaised)
        => \E i \in 1..Len(StatusErrors) : StatusErrors[i] = "run"

\* C33: whenever load_module or unload_module has returned, with success or
\* with failure, the module is in the registry if and only if it has an
\* entry in the task map
RegistryMatchesTasks ==
    (opPc = "idle" /\ ended # "none") => (entry <=> taskHeld)


\* C40: once the module has been loaded successfully and is running, status
\* reporting shows no error strings left over from earlier failed load
\* attempts of that module name
ResolvedLoadErrorsGone ==
    (opPc = "idle" /\ ended = "loaded" /\ Status = "running")
        => StatusErrors = <<>>

-----------------------------------------------------------------------------
(* Properties of the lock of the reload pass *)

\* C27: at most one caller of reload_modules is between its scan and its
\* end; a caller that finds a pass under way waits; and in the order of the
\* steps taken, the steps after a scan are those of the same pass up to its
\* end, after which a scan comes.
PassesMutuallyExclusive ==
    /\ Cardinality({c \in PassCallers : reloader[c].pc = "inPass"}) <= 1
    /\ \A c \in PassCallers :
          /\ reloader[c].pc = "inPass" => reloadLock = c
          /\ reloader[c].pc = "waiting" => reloadLock # c
    /\ \A i \in 1..(Len(passLog) - 1) :
          IF passLog[i][2] = "end"
          THEN passLog[i + 1][2] = "scan"
          ELSE passLog[i + 1][1] = passLog[i][1] /\ passLog[i + 1][2] # "scan"

\* one caller waits for the lock while the pass of another has unloaded
\* and loaded, after an earlier pass
SecondCallWaits ==
    /\ \E c, d \in PassCallers :
          /\ reloader[c].pc = "inPass"
          /\ reloader[c].steps = 2
          /\ reloader[d].pc = "waiting"
    /\ \E i \in 1..Len(passLog) : passLog[i][2] = "end"

-----------------------------------------------------------------------------
(* Properties of stop() beside the calls of a reload pass *)

\* C37: at every moment at most one task that has not completed exists for
\* a module name, across the interleavings of load_module, start_module,
\* unload_module and stop().
OneLiveTaskPerModule ==
    \A name \in StopNames : Cardinality(LiveTasks(name)) <= 1

====
